---- MODULE Spec2Model ----
(***************************************************************************)
(* woodwatch: peer liveness monitoring by ICMP echo request keepalives.    *)
(*                                                                         *)
(* The module models                                                       *)
(*   - package states: the PeerState machine (upState, downState,          *)
(*     maybeState), its Heartbeat transitions and String forms;            *)
(*   - package woodwatch: peers, loadPeers, and the Server with its two    *)
(*     goroutines (checkPeersTicker/checkPeer and readPacket/updatePeer).  *)
(*                                                                         *)
(* Seven specifications are given.  Spec is the Server as cmd/woodwatch    *)
(* runs it (NewServer, one Listen with its two goroutines, one Close) and  *)
(* as the tests of Listen and Close build it (Server literals).            *)
(* SpecLifecycle is the same Server with Listen called more than once,     *)
(* from any goroutines, and SpecClose the same Server with Close called    *)
(* more than once.  SpecNotify is the Server of Spec                       *)
(* together with the goroutines of its webhook deliveries.  SpecStates     *)
(* drives one PeerState with arbitrary observation sequences (the loop of  *)
(* TestPeerStates).  SpecLoadPeers calls loadPeers on every Config of a    *)
(* family built from the values of TestLoadPeers, and SpecConfigValid      *)
(* calls Config.Valid on the family of TestConfigValid.                    *)
(***************************************************************************)
EXTENDS Integers, Sequences, FiniteSets, TLC

\* ------------------------------------------------------------------------
\* Bounds of the model
\* ------------------------------------------------------------------------

\* thresholds are drawn from 0..MaxThreshold
MaxThreshold == 3

\* number of observations the state machine driver feeds to one PeerState
MaxSteps == 9

\* source addresses are the integers of AddrBits bits
AddrBits == 2

\* the clock reading when the Server is constructed; it exceeds the peer
\* timeout of the configurations, as time.Since(ZeroTime) does
StartTime == 2

\* how far the clock advances
MaxElapsed == 1

\* the value of net.ParseIP for a string that is no IP address
NilIP == -1

\* how many times Listen and Close are called on one Server when the
\* caller does not keep to one call of each
MaxListenCalls == 2

MaxCloseCalls == 3

\* the longest Peers list of the configurations loadPeers is driven with
MaxLoadPeers == 2

\* ------------------------------------------------------------------------
\* package states
\* ------------------------------------------------------------------------

down == "Down"

up == "Up"

maybe == "Maybe"

\* struct limits
limits(upThreshold, downThreshold) ==
    [upThreshold |-> upThreshold, downThreshold |-> downThreshold]

upState(lim) == [type |-> "upState", limits |-> lim]

downState(lim) == [type |-> "downState", limits |-> lim]

\* maybeState{...} literal: count is left at its zero value by both
\* constructors.
maybeState(name, returnSeen, returnState, nextState, threshold) ==
    [type        |-> "maybeState",
     name        |-> name,
     returnSeen  |-> returnSeen,
     returnState |-> returnState,
     nextState   |-> nextState,
     count       |-> 0,
     threshold   |-> threshold]

\* maybeUpState counting to the wrong threshold
maybeUpState_DownThreshold(lim) ==
    maybeState(maybe \o " " \o up, TRUE, downState(lim), upState(lim),
               lim.downThreshold)

maybeUpState(lim) ==
    maybeState(maybe \o " " \o up, TRUE, downState(lim), upState(lim),
               lim.upThreshold)

\* maybeDownState counting to the wrong threshold
maybeDownState_UpThreshold(lim) ==
    maybeState(maybe \o " " \o down, FALSE, upState(lim), downState(lim),
               lim.upThreshold)

maybeDownState(lim) ==
    maybeState(maybe \o " " \o down, FALSE, upState(lim), downState(lim),
               lim.downThreshold)

\* NewPeer with the two thresholds taken in the wrong order
NewPeer_Swapped(upThreshold, downThreshold) ==
    downState(limits(downThreshold, upThreshold))

NewPeer(upThreshold, downThreshold) ==
    downState(limits(upThreshold, downThreshold))

\* Each Heartbeat returns the pair <<new PeerState, noteworthy>>.

\* upState.Heartbeat with its test inverted
upState_Heartbeat_Inverted(s, seen) ==
    IF seen THEN <<maybeDownState(s.limits), FALSE>> ELSE <<s, FALSE>>

upState_Heartbeat(s, seen) ==
    IF ~seen THEN <<maybeDownState(s.limits), FALSE>> ELSE <<s, FALSE>>

\* downState.Heartbeat confirming at once when upThreshold is 0
downState_Heartbeat_ConfirmAtZero(s, seen) ==
    IF seen
    THEN IF s.limits.upThreshold = 0
         THEN <<upState(s.limits), TRUE>>
         ELSE <<maybeUpState(s.limits), FALSE>>
    ELSE <<s, FALSE>>

downState_Heartbeat(s, seen) ==
    IF seen THEN <<maybeUpState(s.limits), FALSE>> ELSE <<s, FALSE>>

\* maybeState.Heartbeat comparing with > instead of >=
maybeState_Heartbeat_Greater(s, seen) ==
    IF (s.returnSeen /\ ~seen) \/ (~s.returnSeen /\ seen)
    THEN <<s.returnState, FALSE>>
    ELSE LET s2 == [s EXCEPT !.count = s.count + 1]
         IN  IF s2.count > s2.threshold
             THEN <<s2.nextState, TRUE>>
             ELSE <<s2, FALSE>>

\* maybeState.Heartbeat reporting the reset as notable
maybeState_Heartbeat_NotableReset(s, seen) ==
    IF (s.returnSeen /\ ~seen) \/ (~s.returnSeen /\ seen)
    THEN <<s.returnState, TRUE>>
    ELSE LET s2 == [s EXCEPT !.count = s.count + 1]
         IN  IF s2.count >= s2.threshold
             THEN <<s2.nextState, TRUE>>
             ELSE <<s2, FALSE>>

\* maybeState.Heartbeat clearing the count instead of returning to the
\* return state
maybeState_Heartbeat_StayOnReset(s, seen) ==
    IF (s.returnSeen /\ ~seen) \/ (~s.returnSeen /\ seen)
    THEN <<[s EXCEPT !.count = 0], FALSE>>
    ELSE LET s2 == [s EXCEPT !.count = s.count + 1]
         IN  IF s2.count >= s2.threshold
             THEN <<s2.nextState, TRUE>>
             ELSE <<s2, FALSE>>

maybeState_Heartbeat(s, seen) ==
    IF (s.returnSeen /\ ~seen) \/ (~s.returnSeen /\ seen)
    THEN <<s.returnState, FALSE>>
    ELSE LET s2 == [s EXCEPT !.count = s.count + 1]
         IN  IF s2.count >= s2.threshold
             THEN <<s2.nextState, TRUE>>
             ELSE <<s2, FALSE>>

\* interface PeerState: dynamic dispatch on the concrete type
Heartbeat(s, seen) ==
    CASE s.type = "upState"    -> upState_Heartbeat(s, seen)
      [] s.type = "downState"  -> downState_Heartbeat(s, seen)
      [] s.type = "maybeState" -> maybeState_Heartbeat(s, seen)

upState_String(s) == up

downState_String(s) == down

\* fmt.Sprintf("%s (%d of %d)", s.name, s.count+1, s.threshold)
maybeState_String(s) ==
    s.name \o " (" \o ToString(s.count + 1) \o " of "
           \o ToString(s.threshold) \o ")"

String(s) ==
    CASE s.type = "upState"    -> upState_String(s)
      [] s.type = "downState"  -> downState_String(s)
      [] s.type = "maybeState" -> maybeState_String(s)

\* ------------------------------------------------------------------------
\* package woodwatch: configuration
\* ------------------------------------------------------------------------

ErrEmptyListenAddress == "Listen address must not be empty"

ErrServerAlreadyListening == "Listen() can only be called once"

ErrServerNotListening == "Close() must be called after Listen()"

ErrTooFewPeers == "One or more Peers must be configured"

ErrNoPeerName == "All PeerConfigs must have a Name"

ErrNoPeerNetwork == "All PeerConfigs must have a Network"

\* the nil error
nil == "nil"

\* A duration string is represented by its text, whether
\* time.ParseDuration accepts it and the duration it then denotes (in clock
\* units); "" is rejected.
DurationString(d) == [ok |-> TRUE, d |-> d, text |-> ToString(d) \o "s"]

InvalidDurationString == [ok |-> FALSE, d |-> 0, text |-> "aaaa"]

EmptyDurationString == [ok |-> FALSE, d |-> 0, text |-> ""]

\* the error of time.ParseDuration quotes the string it was given
ParseDuration(str) ==
    IF str.ok
    THEN [d |-> str.d, err |-> nil]
    ELSE [d |-> 0, err |-> "time: invalid duration \"" \o str.text \o "\""]

\* A network string is "" (empty), a string that is not CIDR notation, or
\* CIDR notation ip/bits over addresses of AddrBits bits.
EmptyNetworkString == [text |-> "", ip |-> 0, bits |-> 0]

InvalidNetworkString == [text |-> "bad", ip |-> 0, bits |-> 0]

CIDRString(ip, bits) == [text |-> "cidr", ip |-> ip, bits |-> bits]

Pow2(n) == IF n <= 0 THEN 1 ELSE 2 ^ n

\* net.ParseCIDR: the returned IPNet carries the address masked to the
\* prefix length
ParseCIDR(network) ==
    IF network.text = "cidr"
    THEN LET host == Pow2(AddrBits - network.bits)
         IN  [net |-> [IP   |-> network.ip - (network.ip % host),
                       bits |-> network.bits],
              err |-> nil]
    ELSE [net |-> [IP |-> 0, bits |-> 0], err |-> "invalid CIDR address"]

\* net.IPNet.Contains: false for a nil IP, else a comparison under the mask
IPNet_Contains(n, ip) ==
    /\ ip # NilIP
    /\ LET host == Pow2(AddrBits - n.bits)
       IN  ip \div host = n.IP \div host

PeerConfig_Valid(pc) ==
    IF pc.Name = "" THEN ErrNoPeerName
    ELSE IF pc.Network.text = "" THEN ErrNoPeerNetwork
    ELSE nil

\* the first error of PeerConfig.Valid over c.Peers[i..], in order
RECURSIVE PeersValidFrom(_, _)
PeersValidFrom(c, i) ==
    IF i > Len(c.Peers) THEN nil
    ELSE IF PeerConfig_Valid(c.Peers[i]) # nil
         THEN PeerConfig_Valid(c.Peers[i])
         ELSE PeersValidFrom(c, i + 1)

\* Config.Valid parsing the PeerTimeout before the MonitorCycle
Config_Valid_TimeoutFirst(c) ==
    IF Len(c.Peers) = 0 THEN ErrTooFewPeers
    ELSE IF PeersValidFrom(c, 1) # nil THEN PeersValidFrom(c, 1)
    ELSE IF ParseDuration(c.PeerTimeout).err # nil
         THEN ParseDuration(c.PeerTimeout).err
    ELSE IF ParseDuration(c.MonitorCycle).err # nil
         THEN ParseDuration(c.MonitorCycle).err
    ELSE nil

Config_Valid(c) ==
    IF Len(c.Peers) = 0 THEN ErrTooFewPeers
    ELSE IF PeersValidFrom(c, 1) # nil THEN PeersValidFrom(c, 1)
    ELSE IF ParseDuration(c.MonitorCycle).err # nil
         THEN ParseDuration(c.MonitorCycle).err
    ELSE IF ParseDuration(c.PeerTimeout).err # nil
         THEN ParseDuration(c.PeerTimeout).err
    ELSE nil

\* ------------------------------------------------------------------------
\* package woodwatch: peers
\* ------------------------------------------------------------------------

\* the zero time.Time, the lastSeen of a peer no packet was matched to
ZeroTime == 0

\* a new(sync.RWMutex): no reader, no writer
NewRWMutex == [readers |-> 0, writer |-> FALSE]

\* newPeer: a Webhook of "" stands for the nil *webhook.Hook
newPeer(name, network, upThreshold, downThreshold, hook) ==
    LET r == ParseCIDR(network)
    IN  IF r.err # nil
        THEN [peer |-> nil, err |-> r.err]
        ELSE [peer |-> [Name          |-> name,
                        Network       |-> r.net,
                        Webhook       |-> hook,
                        upThreshold   |-> upThreshold,
                        downThreshold |-> downThreshold,
                        state         |-> NewPeer(upThreshold, downThreshold),
                        lastSeenMu    |-> NewRWMutex,
                        lastSeen      |-> ZeroTime],
              err  |-> nil]

\* the loop body of loadPeers with the global value taking precedence
loadPeer_GlobalFirst(c, pc) ==
    LET upThreshold   == IF c.UpThreshold = 0 THEN pc.UpThreshold
                                              ELSE c.UpThreshold
        downThreshold == IF c.DownThreshold = 0 THEN pc.DownThreshold
                                                ELSE c.DownThreshold
        hookURL       == IF c.Webhook = "" THEN pc.Webhook ELSE c.Webhook
    IN  newPeer(pc.Name, pc.Network, upThreshold, downThreshold, hookURL)

\* the body of the loop of loadPeers for one PeerConfig
loadPeer(c, pc) ==
    LET upThreshold   == IF pc.UpThreshold = 0 THEN c.UpThreshold
                                               ELSE pc.UpThreshold
        downThreshold == IF pc.DownThreshold = 0 THEN c.DownThreshold
                                                 ELSE pc.DownThreshold
        hookURL       == IF pc.Webhook = "" THEN c.Webhook ELSE pc.Webhook
    IN  newPeer(pc.Name, pc.Network, upThreshold, downThreshold, hookURL)

\* the loop of loadPeers returning the peers built before the failure
RECURSIVE loadPeersFrom_Partial(_, _, _)
loadPeersFrom_Partial(c, i, peers) ==
    IF i > Len(c.Peers) THEN [peers |-> peers, err |-> nil]
    ELSE LET r == loadPeer(c, c.Peers[i])
         IN  IF r.err # nil
             THEN [peers |-> peers, err |-> r.err]
             ELSE loadPeersFrom_Partial(c, i + 1, Append(peers, r.peer))

\* the loop of loadPeers from c.Peers[i] on, peers being those built so far
RECURSIVE loadPeersFrom(_, _, _)
loadPeersFrom(c, i, peers) ==
    IF i > Len(c.Peers) THEN [peers |-> peers, err |-> nil]
    ELSE LET r == loadPeer(c, c.Peers[i])
         IN  IF r.err # nil
             THEN [peers |-> <<>>, err |-> r.err]
             ELSE loadPeersFrom(c, i + 1, Append(peers, r.peer))

loadPeers(c) ==
    IF Config_Valid(c) # nil
    THEN [peers |-> <<>>, err |-> Config_Valid(c)]
    ELSE loadPeersFrom(c, 1, <<>>)

\* ------------------------------------------------------------------------
\* package woodwatch: Server
\* ------------------------------------------------------------------------
VARIABLES
    server,         \* "nil" until NewServer has returned a *Server, then "ok"
    newServerErr,   \* the error NewServer returned ("none" before the call)
    verbose,        \* Server.verbose
    listenAddress,  \* Server.listenAddress
    conn,           \* Server.conn: "nil", "open", "closed", or "zero" for
                    \* an &icmp.PacketConn{} that was never opened
    peers,          \* Server.peers
    closeChan,      \* number of values buffered in Server.closeChan, or
                    \* NilChan
    peerTimeout,    \* Server.peerTimeout
    now,            \* the wall clock read by time.Now and time.Since
    listenCalls,    \* the calls of Server.Listen, each on its own goroutine
    tickers,        \* the checkPeersTicker goroutine of each Listen call
    closeCalls      \* the calls of Server.Close

svars == <<server, newServerErr, verbose, listenAddress, conn, peers,
           closeChan, peerTimeout, now, listenCalls, tickers, closeCalls>>

\* make(chan bool, 1)
CloseChanCap == 1

\* the closeChan of a Server that NewServer did not construct: a nil
\* channel, on which a send and a receive block forever
NilChan == -1

Addrs == 0..(Pow2(AddrBits) - 1)

\* the locals of checkPeer while no check is being made
NoCheck ==
    [seen |-> FALSE, prev |-> NewPeer(0, 0), state |-> NewPeer(0, 0),
     lastSeen |-> ZeroTime,
     oldState |-> "", newState |-> "", noteworthy |-> FALSE,
     event |-> [Timestamp |-> ZeroTime, LastSeen |-> ZeroTime, Title |-> "",
                Text |-> "", NewState |-> "", PrevState |-> ""],
     logged |-> 0, posted |-> 0]

\* the calls of Listen and of Close a Server can record
ListenCallIds == 1..MaxListenCalls

CloseCallIds == 1..MaxCloseCalls

\* cmd/woodwatch calls Listen once, from main, and Close once, from the
\* goroutine that waits for a quit signal
MainListenCallIds == {1}

MainCloseCallIds == {1}

ListenAddresses == {"", "0.0.0.0"}

PeerConfig(name, network, upThreshold, downThreshold, hook) ==
    [Name |-> name, Network |-> network, UpThreshold |-> upThreshold,
     DownThreshold |-> downThreshold, Webhook |-> hook]

\* a Config with thresholds 1 and 1 and a peer timeout of one clock unit
Config(monitorCycle, hook, peerConfigs) ==
    [UpThreshold |-> 1, DownThreshold |-> 1, MonitorCycle |-> monitorCycle,
     PeerTimeout |-> DurationString(1), Webhook |-> hook,
     Peers |-> peerConfigs]

\* the configurations NewServer is called with: registries of one and of
\* two peers with nested, equal and disjoint networks, with and without
\* webhooks and threshold overrides, and configurations it rejects
ServerConfigs ==
    {Config(DurationString(1), "http://global",
            <<PeerConfig("A", CIDRString(1, 1), 0, 0, ""),
              PeerConfig("B", CIDRString(0, 0), 2, 0, "")>>),
     Config(DurationString(1), "",
            <<PeerConfig("A", CIDRString(0, 1), 0, 0, ""),
              PeerConfig("B", CIDRString(0, 1), 0, 0, "http://peer")>>),
     Config(DurationString(1), "",
            <<PeerConfig("A", CIDRString(0, 2), 0, 2, "http://peer"),
              PeerConfig("B", CIDRString(3, 1), 0, 0, "")>>),
     Config(DurationString(1), "",
            <<PeerConfig("A", CIDRString(2, 2), 0, 0, "")>>),
     Config(DurationString(1), "", <<>>),
     Config(DurationString(1), "",
            <<PeerConfig("A", CIDRString(0, 1), 0, 0, ""),
              PeerConfig("B", InvalidNetworkString, 0, 0, "")>>),
     Config(DurationString(1), "",
            <<PeerConfig("", CIDRString(0, 1), 0, 0, ""),
              PeerConfig("B", EmptyNetworkString, 0, 0, "")>>),
     Config(InvalidDurationString, "",
            <<PeerConfig("A", CIDRString(0, 1), 0, 0, "")>>)}

SInit ==
    /\ server = "nil"
    /\ newServerErr = "none"
    /\ verbose = FALSE
    /\ listenAddress = ""
    /\ conn = "nil"
    /\ peers = <<>>
    /\ closeChan = 0
    /\ peerTimeout = 0
    /\ now = StartTime
    /\ listenCalls = [l \in ListenCallIds |->
                         [pc |-> "idle", err |-> nil, srcIP |-> NilIP,
                          matchedPeer |-> 0]]
    /\ tickers = [l \in ListenCallIds |->
                     [pc |-> "none", i |-> 0, r |-> NoCheck]]
    /\ closeCalls = [c \in CloseCallIds |-> [pc |-> "idle", err |-> nil]]

\* the Server literals of TestListenErrors and TestCloseError, and the
\* literal with both an empty address and a connection
ServerLiterals ==
    {[listenAddress |-> "",         conn |-> "nil"],
     [listenAddress |-> "whatever", conn |-> "zero"],
     [listenAddress |-> "",         conn |-> "zero"]}

\* a Server built as a struct literal, as the tests of Listen and Close
\* build it: no peers, a nil closeChan
SLiteral ==
    /\ server = "ok"
    /\ newServerErr = "none"
    /\ verbose = FALSE
    /\ \E lit \in ServerLiterals :
          /\ listenAddress = lit.listenAddress
          /\ conn = lit.conn
    /\ peers = <<>>
    /\ closeChan = NilChan
    /\ peerTimeout = 0
    /\ now = StartTime
    /\ listenCalls = [l \in ListenCallIds |->
                         [pc |-> "idle", err |-> nil, srcIP |-> NilIP,
                          matchedPeer |-> 0]]
    /\ tickers = [l \in ListenCallIds |->
                     [pc |-> "none", i |-> 0, r |-> NoCheck]]
    /\ closeCalls = [c \in CloseCallIds |-> [pc |-> "idle", err |-> nil]]

\* NewServer validating the configuration before the listen address
NewServer_ConfigFirst(v, addr, c) ==
    /\ server = "nil"
    /\ newServerErr = "none"
    /\ IF Config_Valid(c) # nil
       THEN /\ newServerErr' = Config_Valid(c)
            /\ UNCHANGED <<server, verbose, listenAddress, peers, peerTimeout>>
       ELSE IF addr = ""
       THEN /\ newServerErr' = ErrEmptyListenAddress
            /\ UNCHANGED <<server, verbose, listenAddress, peers, peerTimeout>>
       ELSE IF loadPeers(c).err # nil
       THEN /\ newServerErr' = loadPeers(c).err
            /\ UNCHANGED <<server, verbose, listenAddress, peers, peerTimeout>>
       ELSE /\ newServerErr' = nil
            /\ server' = "ok"
            /\ verbose' = v
            /\ listenAddress' = addr
            /\ peers' = loadPeers(c).peers
            /\ peerTimeout' = ParseDuration(c.PeerTimeout).d
    /\ UNCHANGED <<conn, closeChan, now, listenCalls, tickers, closeCalls>>

\* NewServer(log, verbose, addr, c)
NewServer(v, addr, c) ==
    /\ server = "nil"
    /\ newServerErr = "none"
    /\ IF addr = ""
       THEN /\ newServerErr' = ErrEmptyListenAddress
            /\ UNCHANGED <<server, verbose, listenAddress, peers, peerTimeout>>
       ELSE IF Config_Valid(c) # nil
       THEN /\ newServerErr' = Config_Valid(c)
            /\ UNCHANGED <<server, verbose, listenAddress, peers, peerTimeout>>
       ELSE IF loadPeers(c).err # nil
       THEN /\ newServerErr' = loadPeers(c).err
            /\ UNCHANGED <<server, verbose, listenAddress, peers, peerTimeout>>
       ELSE /\ newServerErr' = nil
            /\ server' = "ok"
            /\ verbose' = v
            /\ listenAddress' = addr
            /\ peers' = loadPeers(c).peers
            /\ peerTimeout' = ParseDuration(c.PeerTimeout).d
    /\ UNCHANGED <<conn, closeChan, now, listenCalls, tickers, closeCalls>>

\* Listen looking at the connection before the listen address
Listen_ConnFirst(l) ==
    /\ server = "ok"
    /\ listenCalls[l].pc = "idle"
    /\ \A k \in ListenCallIds : k < l => listenCalls[k].pc # "idle"
    /\ IF conn # "nil"
       THEN /\ listenCalls' = [listenCalls EXCEPT ![l].pc = "returned",
                                   ![l].err = ErrServerAlreadyListening]
            /\ UNCHANGED tickers
       ELSE IF listenAddress = ""
       THEN /\ listenCalls' = [listenCalls EXCEPT ![l].pc = "returned",
                                   ![l].err = ErrEmptyListenAddress]
            /\ UNCHANGED tickers
       ELSE /\ tickers' = [tickers EXCEPT ![l].pc = "select"]
            /\ listenCalls' = [listenCalls EXCEPT ![l].pc = "listenPacket"]
    /\ UNCHANGED <<server, newServerErr, verbose, listenAddress, conn, peers,
                   closeChan, peerTimeout, now, closeCalls>>

\* Listen, up to the start of the monitoring goroutine
Listen(l) ==
    /\ server = "ok"
    /\ listenCalls[l].pc = "idle"
    /\ \A k \in ListenCallIds : k < l => listenCalls[k].pc # "idle"
    /\ IF listenAddress = ""
       THEN /\ listenCalls' = [listenCalls EXCEPT ![l].pc = "returned",
                                   ![l].err = ErrEmptyListenAddress]
            /\ UNCHANGED tickers
       ELSE IF conn # "nil"
       THEN /\ listenCalls' = [listenCalls EXCEPT ![l].pc = "returned",
                                   ![l].err = ErrServerAlreadyListening]
            /\ UNCHANGED tickers
       ELSE /\ tickers' = [tickers EXCEPT ![l].pc = "select"]
            /\ listenCalls' = [listenCalls EXCEPT ![l].pc = "listenPacket"]
    /\ UNCHANGED <<server, newServerErr, verbose, listenAddress, conn, peers,
                   closeChan, peerTimeout, now, closeCalls>>

\* s.conn, err = icmp.ListenPacket("ip4:icmp", s.listenAddress)
ListenPacket(l) ==
    /\ listenCalls[l].pc = "listenPacket"
    /\ \E ok \in BOOLEAN :
          IF ok
          THEN /\ conn' = "open"
               /\ listenCalls' = [listenCalls EXCEPT ![l].pc = "readFrom"]
          ELSE /\ conn' = "nil"
               /\ listenCalls' = [listenCalls EXCEPT ![l].pc = "returned",
                                      ![l].err = "listen: operation not permitted"]
    /\ UNCHANGED <<server, newServerErr, verbose, listenAddress, peers,
                   closeChan, peerTimeout, now, tickers, closeCalls>>

\* the search loop of updatePeer without its break: the last match wins
RECURSIVE matchPeerFrom_NoBreak(_, _, _)
matchPeerFrom_NoBreak(ps, parsedIP, i) ==
    IF i > Len(ps) THEN 0
    ELSE IF matchPeerFrom_NoBreak(ps, parsedIP, i + 1) # 0
         THEN matchPeerFrom_NoBreak(ps, parsedIP, i + 1)
    ELSE IF IPNet_Contains(ps[i].Network, parsedIP) THEN i
    ELSE 0

\* the search loop of updatePeer from s.peers[i] on: the index of the first
\* peer whose Network contains parsedIP, 0 for a nil matchedPeer
RECURSIVE matchPeerFrom(_, _, _)
matchPeerFrom(ps, parsedIP, i) ==
    IF i > Len(ps) THEN 0
    ELSE IF IPNet_Contains(ps[i].Network, parsedIP) THEN i
    ELSE matchPeerFrom(ps, parsedIP, i + 1)

\* readPacket: ReadFrom yields a packet from srcIP; updatePeer up to its
\* return for an unmatched address, which stays recorded as the last one
\* ignored, or to matchedPeer.lastSeenMu.Lock()
ReadPacket(l, srcIP) ==
    /\ listenCalls[l].pc = "readFrom"
    /\ conn = "open"
    /\ LET matchedPeer == matchPeerFrom(peers, srcIP, 1)
       IN  listenCalls' =
              [listenCalls EXCEPT
                  ![l].srcIP = srcIP,
                  ![l].matchedPeer = matchedPeer,
                  ![l].pc = IF matchedPeer = 0 THEN "readFrom" ELSE "lock"]
    /\ UNCHANGED <<server, newServerErr, verbose, listenAddress, conn, peers,
                   closeChan, peerTimeout, now, tickers, closeCalls>>

\* the error of a ReadFrom or a Close on a closed connection, and the error
\* of a ReadFrom that fails on an open one
errClosedConn == "use of closed network connection"

errRead == "read: i/o error"

\* readPacket: ReadFrom fails, on a closed connection or otherwise
ReadError(l) ==
    /\ listenCalls[l].pc = "readFrom"
    /\ listenCalls' =
          [listenCalls EXCEPT
              ![l].pc = "returned",
              ![l].err = IF conn = "open" THEN errRead ELSE errClosedConn]
    /\ UNCHANGED <<server, newServerErr, verbose, listenAddress, conn, peers,
                   closeChan, peerTimeout, now, tickers, closeCalls>>

\* updatePeer taking the lock without waiting for the readers
UpdatePeerLock_NoWait(l) ==
    /\ listenCalls[l].pc = "lock"
    /\ LET m == listenCalls[l].matchedPeer
       IN  /\ ~peers[m].lastSeenMu.writer
           /\ peers' = [peers EXCEPT ![m].lastSeenMu.writer = TRUE]
    /\ listenCalls' = [listenCalls EXCEPT ![l].pc = "locked"]
    /\ UNCHANGED <<server, newServerErr, verbose, listenAddress, conn,
                   closeChan, peerTimeout, now, tickers, closeCalls>>

\* updatePeer: matchedPeer.lastSeenMu.Lock()
UpdatePeerLock(l) ==
    /\ listenCalls[l].pc = "lock"
    /\ LET m == listenCalls[l].matchedPeer
       IN  /\ peers[m].lastSeenMu.readers = 0
           /\ ~peers[m].lastSeenMu.writer
           /\ peers' = [peers EXCEPT ![m].lastSeenMu.writer = TRUE]
    /\ listenCalls' = [listenCalls EXCEPT ![l].pc = "locked"]
    /\ UNCHANGED <<server, newServerErr, verbose, listenAddress, conn,
                   closeChan, peerTimeout, now, tickers, closeCalls>>

\* updatePeer setting the lastSeen of every peer whose Network contains
\* the address, not of the first only
UpdatePeerWrite_EveryMatch(l) ==
    /\ listenCalls[l].pc = "locked"
    /\ LET m == listenCalls[l].matchedPeer
       IN  peers' = [p \in 1..Len(peers) |->
                       IF p = m
                       THEN [peers[p] EXCEPT !.lastSeen = now,
                                             !.lastSeenMu.writer = FALSE]
                       ELSE IF IPNet_Contains(peers[p].Network,
                                              listenCalls[l].srcIP)
                       THEN [peers[p] EXCEPT !.lastSeen = now]
                       ELSE peers[p]]
    /\ listenCalls' = [listenCalls EXCEPT ![l].pc = "readFrom",
                                          ![l].srcIP = NilIP,
                                          ![l].matchedPeer = 0]
    /\ UNCHANGED <<server, newServerErr, verbose, listenAddress, conn,
                   closeChan, peerTimeout, now, tickers, closeCalls>>

\* updatePeer: matchedPeer.lastSeen = time.Now() and the deferred Unlock;
\* updatePeer returns and the locals of this iteration of readPacket's loop
\* go out of scope
UpdatePeerWrite(l) ==
    /\ listenCalls[l].pc = "locked"
    /\ LET m == listenCalls[l].matchedPeer
       IN  peers' = [peers EXCEPT ![m].lastSeen = now,
                                  ![m].lastSeenMu.writer = FALSE]
    /\ listenCalls' = [listenCalls EXCEPT ![l].pc = "readFrom",
                                          ![l].srcIP = NilIP,
                                          ![l].matchedPeer = 0]
    /\ UNCHANGED <<server, newServerErr, verbose, listenAddress, conn,
                   closeChan, peerTimeout, now, tickers, closeCalls>>

\* checkPeersTicker ranging over s.peers from its last element
TickerTick_LastFirst(t) ==
    /\ tickers[t].pc = "select"
    /\ tickers' = [tickers EXCEPT ![t].pc = "rlock", ![t].i = Len(peers)]
    /\ UNCHANGED <<server, newServerErr, verbose, listenAddress, conn, peers,
                   closeChan, peerTimeout, now, listenCalls, closeCalls>>

\* checkPeersTicker: case <-ticker.C, the loop over s.peers begins
TickerTick(t) ==
    /\ tickers[t].pc = "select"
    /\ tickers' = [tickers EXCEPT ![t].pc = "rlock", ![t].i = 1]
    /\ UNCHANGED <<server, newServerErr, verbose, listenAddress, conn, peers,
                   closeChan, peerTimeout, now, listenCalls, closeCalls>>

\* checkPeersTicker: case <-s.closeChan, return
TickerStop(t) ==
    /\ tickers[t].pc = "select"
    /\ closeChan > 0
    /\ closeChan' = closeChan - 1
    /\ tickers' = [tickers EXCEPT ![t].pc = "stopped"]
    /\ UNCHANGED <<server, newServerErr, verbose, listenAddress, conn, peers,
                   peerTimeout, now, listenCalls, closeCalls>>

\* dispatch of checkPeer ignoring the verbose flag
dispatchPolicy_AnyChange(noteworthy, oldState, newState, verb) ==
    noteworthy \/ oldState # newState

\* checkPeer: whether dispatch() is called for the event
dispatchPolicy(noteworthy, oldState, newState, verb) ==
    IF noteworthy THEN TRUE
    ELSE IF oldState # newState /\ verb THEN TRUE
    ELSE FALSE

\* checkPeer from the computation of seen to the call of Heartbeat, for
\* peer p at time t: the locals it has set when Heartbeat has returned and
\* p.state is not yet assigned; lastSeen is the p.lastSeen that time.Since
\* was called with
checkPeerHeartbeat(p, t, timeout) ==
    LET seen == (t - p.lastSeen) < timeout
        hb   == Heartbeat(p.state, seen)
    IN  [NoCheck EXCEPT !.seen       = seen,
                        !.lastSeen   = p.lastSeen,
                        !.prev       = p.state,
                        !.oldState   = String(p.state),
                        !.state      = hb[1],
                        !.noteworthy = hb[2]]

\* checkPeer taking the read lock without waiting for the writer
CheckPeerRLock_NoWait(t) ==
    /\ tickers[t].pc = "rlock"
    /\ LET i == tickers[t].i
       IN  /\ peers' = [peers EXCEPT ![i].lastSeenMu.readers = @ + 1]
           /\ tickers' = [tickers EXCEPT
                             ![t].pc = "rlocked",
                             ![t].r  = checkPeerHeartbeat(peers[i], now,
                                                          peerTimeout)]
    /\ UNCHANGED <<server, newServerErr, verbose, listenAddress, conn,
                   closeChan, peerTimeout, now, listenCalls, closeCalls>>

\* checkPeer: p.lastSeenMu.RLock(), then seen, oldState and the call of
\* Heartbeat on p.state.  The reads of p.state are made under the read
\* lock only, which another check loop can hold as well: a check loop that
\* assigns p.state between this step and CheckPeer has its write lost.
CheckPeerRLock(t) ==
    /\ tickers[t].pc = "rlock"
    /\ LET i == tickers[t].i
       IN  /\ ~peers[i].lastSeenMu.writer
           /\ peers' = [peers EXCEPT ![i].lastSeenMu.readers = @ + 1]
           /\ tickers' = [tickers EXCEPT
                             ![t].pc = "rlocked",
                             ![t].r  = checkPeerHeartbeat(peers[i], now,
                                                          peerTimeout)]
    /\ UNCHANGED <<server, newServerErr, verbose, listenAddress, conn,
                   closeChan, peerTimeout, now, listenCalls, closeCalls>>

\* checkPeer whose dispatch logs the title only when the peer has no
\* webhook
checkPeerResult_LogOrPost(r, p, t, verb) ==
    LET newState   == String(p.state)
        event      == [Timestamp |-> t,
                       LastSeen  |-> p.lastSeen,
                       Title     |-> "Peer " \o p.Name \o " is " \o newState,
                       Text      |-> p.Name \o " (last seen "
                                     \o ToString(p.lastSeen)
                                     \o ") was previously " \o r.oldState
                                     \o " and is now " \o newState,
                       NewState  |-> newState,
                       PrevState |-> r.oldState]
        dispatch   == dispatchPolicy(r.noteworthy, r.oldState, newState, verb)
    IN  [r EXCEPT !.newState = newState,
                  !.event    = event,
                  !.logged   = IF dispatch /\ p.Webhook = "" THEN 1 ELSE 0,
                  !.posted   = IF dispatch /\ p.Webhook # "" THEN 1 ELSE 0]

\* checkPeer after the assignment of p.state, for the locals r, peer p and
\* time t: newState is read from p.state; the event and what dispatch did
\* with it
checkPeerResult(r, p, t, verb) ==
    LET newState   == String(p.state)
        event      == [Timestamp |-> t,
                       LastSeen  |-> p.lastSeen,
                       Title     |-> "Peer " \o p.Name \o " is " \o newState,
                       Text      |-> p.Name \o " (last seen "
                                     \o ToString(p.lastSeen)
                                     \o ") was previously " \o r.oldState
                                     \o " and is now " \o newState,
                       NewState  |-> newState,
                       PrevState |-> r.oldState]
        dispatch   == dispatchPolicy(r.noteworthy, r.oldState, newState, verb)
    IN  [r EXCEPT !.newState = newState,
                  !.event    = event,
                  !.logged   = IF dispatch THEN 1 ELSE 0,
                  !.posted   = IF dispatch /\ p.Webhook # "" THEN 1 ELSE 0]

\* checkPeer clearing lastSeen when it assigns p.state
CheckPeer_ClearLastSeen(t) ==
    /\ tickers[t].pc = "rlocked"
    /\ LET i == tickers[t].i
           p == [peers[i] EXCEPT !.state = tickers[t].r.state]
           r == checkPeerResult(tickers[t].r, p, now, verbose)
       IN  /\ peers' = [peers EXCEPT ![i].state = r.state,
                                     ![i].lastSeen = ZeroTime]
           /\ tickers' = [tickers EXCEPT ![t].pc = "dispatched", ![t].r = r]
    /\ UNCHANGED <<server, newServerErr, verbose, listenAddress, conn,
                   closeChan, peerTimeout, now, listenCalls, closeCalls>>

\* checkPeer: p.state is assigned the state Heartbeat returned, newState
\* is read from it, the event is built and dispatched; the read lock is
\* still held
CheckPeer(t) ==
    /\ tickers[t].pc = "rlocked"
    /\ LET i == tickers[t].i
           p == [peers[i] EXCEPT !.state = tickers[t].r.state]
           r == checkPeerResult(tickers[t].r, p, now, verbose)
       IN  /\ peers' = [peers EXCEPT ![i].state = r.state]
           /\ tickers' = [tickers EXCEPT ![t].pc = "dispatched", ![t].r = r]
    /\ UNCHANGED <<server, newServerErr, verbose, listenAddress, conn,
                   closeChan, peerTimeout, now, listenCalls, closeCalls>>

\* checkPeer with more than one check loop running: the assignment of
\* p.state alone.  Another check loop can assign p.state before this one
\* reads it again for newState.
CheckPeerAssign(t) ==
    /\ tickers[t].pc = "rlocked"
    /\ LET i == tickers[t].i
       IN  peers' = [peers EXCEPT ![i].state = tickers[t].r.state]
    /\ tickers' = [tickers EXCEPT ![t].pc = "assigned"]
    /\ UNCHANGED <<server, newServerErr, verbose, listenAddress, conn,
                   closeChan, peerTimeout, now, listenCalls, closeCalls>>

\* checkPeer after CheckPeerAssign: newState := p.state.String(), the
\* event and its dispatch
CheckPeerDispatch(t) ==
    /\ tickers[t].pc = "assigned"
    /\ LET i == tickers[t].i
           r == checkPeerResult(tickers[t].r, peers[i], now, verbose)
       IN  tickers' = [tickers EXCEPT ![t].pc = "dispatched", ![t].r = r]
    /\ UNCHANGED <<server, newServerErr, verbose, listenAddress, conn, peers,
                   closeChan, peerTimeout, now, listenCalls, closeCalls>>

\* checkPeer returns: the deferred RUnlock; the loop of checkPeersTicker
\* goes on to the next peer or back to the select
CheckPeerReturn(t) ==
    /\ tickers[t].pc = "dispatched"
    /\ LET i == tickers[t].i
       IN  /\ peers' = [peers EXCEPT ![i].lastSeenMu.readers = @ - 1]
           /\ tickers' = [tickers EXCEPT ![t] =
                             IF i < Len(peers)
                             THEN [pc |-> "rlock", i |-> i + 1, r |-> NoCheck]
                             ELSE [pc |-> "select", i |-> 0, r |-> NoCheck]]
    /\ UNCHANGED <<server, newServerErr, verbose, listenAddress, conn,
                   closeChan, peerTimeout, now, listenCalls, closeCalls>>

\* Close without its check of s.conn
Close_NoCheck(c) ==
    /\ server = "ok"
    /\ closeCalls[c].pc = "idle"
    /\ \A k \in CloseCallIds : k < c => closeCalls[k].pc # "idle"
    /\ closeCalls' = [closeCalls EXCEPT ![c] = [pc |-> "send", err |-> nil]]
    /\ UNCHANGED <<server, newServerErr, verbose, listenAddress, conn, peers,
                   closeChan, peerTimeout, now, listenCalls, tickers>>

\* Close, up to the send on closeChan
Close(c) ==
    /\ server = "ok"
    /\ closeCalls[c].pc = "idle"
    /\ \A k \in CloseCallIds : k < c => closeCalls[k].pc # "idle"
    /\ closeCalls' =
          [closeCalls EXCEPT ![c] =
              IF conn = "nil"
              THEN [pc |-> "returned", err |-> ErrServerNotListening]
              ELSE [pc |-> "send", err |-> nil]]
    /\ UNCHANGED <<server, newServerErr, verbose, listenAddress, conn, peers,
                   closeChan, peerTimeout, now, listenCalls, tickers>>

\* Close: s.closeChan <- true, which blocks while the buffer is full
CloseSend(c) ==
    /\ closeCalls[c].pc = "send"
    /\ closeChan # NilChan
    /\ closeChan < CloseChanCap
    /\ closeChan' = closeChan + 1
    /\ closeCalls' = [closeCalls EXCEPT ![c].pc = "connClose"]
    /\ UNCHANGED <<server, newServerErr, verbose, listenAddress, conn, peers,
                   peerTimeout, now, listenCalls, tickers>>

\* Close: return s.conn.Close()
CloseConn(c) ==
    /\ closeCalls[c].pc = "connClose"
    /\ conn' = "closed"
    /\ closeCalls' =
          [closeCalls EXCEPT ![c] =
              [pc  |-> "returned",
               err |-> IF conn = "open" THEN nil ELSE errClosedConn]]
    /\ UNCHANGED <<server, newServerErr, verbose, listenAddress, peers,
                   closeChan, peerTimeout, now, listenCalls, tickers>>

\* the wall clock advances
AdvanceTime ==
    /\ now < StartTime + MaxElapsed
    /\ now' = now + 1
    /\ UNCHANGED <<server, newServerErr, verbose, listenAddress, conn, peers,
                   closeChan, peerTimeout, listenCalls, tickers, closeCalls>>

\* ------------------------------------------------------------------------
\* State machine driver (the loop of TestPeerStates)
\* ------------------------------------------------------------------------
VARIABLES
    tlim,        \* lim: the thresholds the driven PeerState was built with
    tstate,      \* state: the PeerState under test
    trace        \* one entry per Heartbeat call made so far

tvars == <<tlim, tstate, trace>>

\* state, noteworthy = state.Heartbeat(pair.observation)
THeartbeat ==
    /\ Len(trace) < MaxSteps
    /\ \E observation \in BOOLEAN :
          LET r == Heartbeat(tstate, observation)
          IN  /\ tstate' = r[1]
              /\ trace' = Append(trace,
                                 [observation |-> observation,
                                  prev        |-> tstate,
                                  state       |-> r[1],
                                  prevState   |-> String(tstate),
                                  newState    |-> String(r[1]),
                                  noteworthy  |-> r[2]])
    /\ UNCHANGED tlim

\* ------------------------------------------------------------------------
\* loadPeers driver (the loop of TestLoadPeers)
\* ------------------------------------------------------------------------
VARIABLES
    conf,        \* tc.Conf: the Config loadPeers is called with
    loaded,      \* peers, err: what loadPeers returned
    loadDone     \* whether loadPeers has been called

lvars == <<conf, loaded, loadDone>>

\* the values of the TestLoadPeers configurations
exampleHookA == "example.org"

exampleHookB == "example.com"

\* name and network of a PeerConfig: a valid pair, no name, no network and
\* a network that is not CIDR notation
LoadPeerIdentities ==
    {[Name |-> "First", Network |-> CIDRString(0, 1)],
     [Name |-> "",      Network |-> CIDRString(0, 1)],
     [Name |-> "First", Network |-> EmptyNetworkString],
     [Name |-> "First", Network |-> InvalidNetworkString]}

\* the PeerConfigs: every identity with and without each override
LoadPeerConfigs ==
    {PeerConfig(n.Name, n.Network, u, d, h) :
        n \in LoadPeerIdentities, u \in {0, 128}, d \in {0, 99},
        h \in {"", exampleHookB}}

\* a Config of TestLoadPeers and the Peers lists the driver takes: every
\* list of up to MaxLoadPeers PeerConfigs
LoadConfig(u, d, mc, pt, h, ps) ==
    [UpThreshold |-> u, DownThreshold |-> d, MonitorCycle |-> mc,
     PeerTimeout |-> pt, Webhook |-> h, Peers |-> ps]

LoadPeerLists == UNION {[1..k -> LoadPeerConfigs] : k \in 0..MaxLoadPeers}

\* peers, err := loadPeers(tc.Conf)
TLoadPeers ==
    /\ ~loadDone
    /\ loaded' = loadPeers(conf)
    /\ loadDone' = TRUE
    /\ UNCHANGED conf

\* ------------------------------------------------------------------------
\* Config.Valid driver (the loop of TestConfigValid)
\* ------------------------------------------------------------------------
VARIABLES
    validConf,   \* c: the Config whose Valid is called
    validErr     \* the error c.Valid() returned ("none" before the call)

cvars == <<validConf, validErr>>

\* name and network of the PeerConfigs: each empty or not, the network in
\* CIDR notation or not, as Valid looks at neither threshold nor webhook
ValidPeerIdentities ==
    {[Name |-> n, Network |-> w] :
        n \in {"", "test"},
        w \in {EmptyNetworkString, InvalidNetworkString, CIDRString(0, 1)}}

ValidPeerConfigs ==
    {PeerConfig(n.Name, n.Network, 0, 0, "") : n \in ValidPeerIdentities}

\* every Peers list of up to MaxLoadPeers of these PeerConfigs
ValidPeerLists == UNION {[1..k -> ValidPeerConfigs] : k \in 0..MaxLoadPeers}

\* the MonitorCycle and PeerTimeout strings: "1s", "aaaa" and ""
ValidDurationStrings ==
    {DurationString(1), InvalidDurationString, EmptyDurationString}

\* err := c.Valid()
TConfigValid ==
    /\ validErr = "none"
    /\ validErr' = Config_Valid(validConf)
    /\ UNCHANGED validConf

\* ------------------------------------------------------------------------
\* package webhook: the goroutines of Hook.Dispatch
\* ------------------------------------------------------------------------
VARIABLES
    delivering   \* the peers (indexes of s.peers) for which a goroutine
                 \* started by `go p.Webhook.Dispatch(event)` has not
                 \* returned; followed by SpecNotify only

nvars == <<delivering>>

\* Dispatch called in the goroutine of the check loop and never returning:
\* the check of a peer that has an event to post does not go on
GoDispatch_Call(t) ==
    /\ tickers'[t].r.posted = 0
    /\ UNCHANGED delivering

\* dispatch of checkPeer: go p.Webhook.Dispatch(event), a goroutine of its
\* own for each event posted by the check CheckPeer(t) makes in this step
GoDispatch(t) ==
    delivering' = IF tickers'[t].r.posted > 0
                  THEN delivering \cup {tickers[t].i}
                  ELSE delivering

\* Hook.Dispatch returns: the event was invalid, the request could not be
\* built, the POST failed, or the response was read
DispatchReturn(p) ==
    /\ p \in delivering
    /\ delivering' = delivering \ {p}

\* ------------------------------------------------------------------------
\* Specifications
\* ------------------------------------------------------------------------
dvars == <<tvars, lvars, nvars, cvars>>

vars == <<svars, tvars, lvars, nvars, cvars>>

\* the loadPeers driver is not running
LIdle ==
    /\ conf = Config(DurationString(1), "", <<>>)
    /\ loaded = [peers |-> <<>>, err |-> nil]
    /\ loadDone = FALSE

\* no webhook delivery is in flight
NIdle == delivering = {}

\* the Config.Valid driver is not running
CIdle ==
    /\ validConf = Config(DurationString(1), "", <<>>)
    /\ validErr = "none"

\* the driver is not running
TIdle ==
    /\ tlim = limits(0, 0)
    /\ tstate = NewPeer(0, 0)
    /\ trace = <<>>

\* a Server about to be constructed by NewServer, or a Server literal
Init == (SInit \/ SLiteral) /\ TIdle /\ LIdle /\ NIdle /\ CIdle

Next ==
    \/ \E v \in BOOLEAN, addr \in ListenAddresses, c \in ServerConfigs :
          NewServer(v, addr, c) /\ UNCHANGED dvars
    \/ \E l \in MainListenCallIds : Listen(l) /\ UNCHANGED dvars
    \/ \E l \in MainListenCallIds : ListenPacket(l) /\ UNCHANGED dvars
    \/ \E l \in MainListenCallIds, srcIP \in Addrs \cup {NilIP} :
          ReadPacket(l, srcIP) /\ UNCHANGED dvars
    \/ \E l \in MainListenCallIds : ReadError(l) /\ UNCHANGED dvars
    \/ \E l \in MainListenCallIds : UpdatePeerLock(l) /\ UNCHANGED dvars
    \/ \E l \in MainListenCallIds : UpdatePeerWrite(l) /\ UNCHANGED dvars
    \/ \E t \in MainListenCallIds : TickerTick(t) /\ UNCHANGED dvars
    \/ \E t \in MainListenCallIds : TickerStop(t) /\ UNCHANGED dvars
    \/ \E t \in MainListenCallIds : CheckPeerRLock(t) /\ UNCHANGED dvars
    \/ \E t \in MainListenCallIds : CheckPeer(t) /\ UNCHANGED dvars
    \/ \E t \in MainListenCallIds : CheckPeerReturn(t) /\ UNCHANGED dvars
    \/ \E c \in MainCloseCallIds : Close(c) /\ UNCHANGED dvars
    \/ \E c \in MainCloseCallIds : CloseSend(c) /\ UNCHANGED dvars
    \/ \E c \in MainCloseCallIds : CloseConn(c) /\ UNCHANGED dvars
    \/ AdvanceTime /\ UNCHANGED dvars

Spec == Init /\ [][Next]_vars

TNext == THeartbeat /\ UNCHANGED <<svars, lvars, nvars, cvars>>

\* the driver runs, no Server is constructed
InitStates ==
    /\ \E u \in 0..MaxThreshold, d \in 0..MaxThreshold :
          /\ tlim = limits(u, d)
          /\ tstate = NewPeer(u, d)
    /\ trace = <<>>
    /\ SInit
    /\ LIdle
    /\ NIdle
    /\ CIdle

SpecStates == InitStates /\ [][TNext]_vars

LNext == TLoadPeers /\ UNCHANGED <<svars, tvars, nvars, cvars>>

\* loadPeers is driven, no Server is constructed
InitLoadPeers ==
    /\ \E u \in {0, 10}, d \in {0, 11},
          mc \in {DurationString(2), InvalidDurationString},
          pt \in {DurationString(2), InvalidDurationString},
          h \in {"", exampleHookA}, ps \in LoadPeerLists :
          conf = LoadConfig(u, d, mc, pt, h, ps)
    /\ loaded = [peers |-> <<>>, err |-> nil]
    /\ loadDone = FALSE
    /\ SInit
    /\ TIdle
    /\ NIdle
    /\ CIdle

SpecLoadPeers == InitLoadPeers /\ [][LNext]_vars

\* the configuration and the packets of the Server whose Listen and Close
\* are called any number of times
LifecycleConfigs ==
    {Config(DurationString(1), "",
            <<PeerConfig("A", CIDRString(0, 0), 0, 0, "")>>)}

LifecyclePackets == {0, NilIP}

\* the Server with Listen called up to MaxListenCalls times, from any
\* goroutines, and Close called once
NextLifecycle ==
    \/ \E addr \in ListenAddresses, c \in LifecycleConfigs :
          NewServer(FALSE, addr, c) /\ UNCHANGED dvars
    \/ \E l \in ListenCallIds : Listen(l) /\ UNCHANGED dvars
    \/ \E l \in ListenCallIds : ListenPacket(l) /\ UNCHANGED dvars
    \/ \E l \in ListenCallIds, srcIP \in LifecyclePackets :
          ReadPacket(l, srcIP) /\ UNCHANGED dvars
    \/ \E l \in ListenCallIds : ReadError(l) /\ UNCHANGED dvars
    \/ \E l \in ListenCallIds : UpdatePeerLock(l) /\ UNCHANGED dvars
    \/ \E l \in ListenCallIds : UpdatePeerWrite(l) /\ UNCHANGED dvars
    \/ \E t \in ListenCallIds : TickerTick(t) /\ UNCHANGED dvars
    \/ \E t \in ListenCallIds : TickerStop(t) /\ UNCHANGED dvars
    \/ \E t \in ListenCallIds : CheckPeerRLock(t) /\ UNCHANGED dvars
    \/ \E t \in ListenCallIds : CheckPeer(t) /\ UNCHANGED dvars
    \/ \E t \in ListenCallIds : CheckPeerAssign(t) /\ UNCHANGED dvars
    \/ \E t \in ListenCallIds : CheckPeerDispatch(t) /\ UNCHANGED dvars
    \/ \E t \in ListenCallIds : CheckPeerReturn(t) /\ UNCHANGED dvars
    \/ \E c \in MainCloseCallIds : Close(c) /\ UNCHANGED dvars
    \/ \E c \in MainCloseCallIds : CloseSend(c) /\ UNCHANGED dvars
    \/ \E c \in MainCloseCallIds : CloseConn(c) /\ UNCHANGED dvars
    \/ AdvanceTime /\ UNCHANGED dvars

SpecLifecycle == Init /\ [][NextLifecycle]_vars

\* the Server with Listen called once and Close called up to
\* MaxCloseCalls times, from any goroutines
NextClose ==
    \/ \E addr \in ListenAddresses, c \in LifecycleConfigs :
          NewServer(FALSE, addr, c) /\ UNCHANGED dvars
    \/ \E l \in MainListenCallIds : Listen(l) /\ UNCHANGED dvars
    \/ \E l \in MainListenCallIds : ListenPacket(l) /\ UNCHANGED dvars
    \/ \E l \in MainListenCallIds, srcIP \in LifecyclePackets :
          ReadPacket(l, srcIP) /\ UNCHANGED dvars
    \/ \E l \in MainListenCallIds : ReadError(l) /\ UNCHANGED dvars
    \/ \E l \in MainListenCallIds : UpdatePeerLock(l) /\ UNCHANGED dvars
    \/ \E l \in MainListenCallIds : UpdatePeerWrite(l) /\ UNCHANGED dvars
    \/ \E t \in MainListenCallIds : TickerTick(t) /\ UNCHANGED dvars
    \/ \E t \in MainListenCallIds : TickerStop(t) /\ UNCHANGED dvars
    \/ \E t \in MainListenCallIds : CheckPeerRLock(t) /\ UNCHANGED dvars
    \/ \E t \in MainListenCallIds : CheckPeer(t) /\ UNCHANGED dvars
    \/ \E t \in MainListenCallIds : CheckPeerReturn(t) /\ UNCHANGED dvars
    \/ \E c \in CloseCallIds : Close(c) /\ UNCHANGED dvars
    \/ \E c \in CloseCallIds : CloseSend(c) /\ UNCHANGED dvars
    \/ \E c \in CloseCallIds : CloseConn(c) /\ UNCHANGED dvars
    \/ AdvanceTime /\ UNCHANGED dvars

SpecClose == Init /\ [][NextClose]_vars

\* the configuration of the Server whose webhook deliveries are followed:
\* a peer under the global webhook and a peer with its own, each on one
\* half of the addresses
NotifyConfigs ==
    {Config(DurationString(1), "http://global",
            <<PeerConfig("A", CIDRString(0, 1), 0, 0, ""),
              PeerConfig("B", CIDRString(Pow2(AddrBits - 1), 1), 0, 0,
                         "http://peer")>>)}

\* the Server as cmd/woodwatch runs it, together with the goroutines of
\* its webhook deliveries
NextNotify ==
    \/ \E v \in BOOLEAN, addr \in ListenAddresses, c \in NotifyConfigs :
          NewServer(v, addr, c) /\ UNCHANGED dvars
    \/ \E l \in MainListenCallIds : Listen(l) /\ UNCHANGED dvars
    \/ \E l \in MainListenCallIds : ListenPacket(l) /\ UNCHANGED dvars
    \/ \E l \in MainListenCallIds, srcIP \in Addrs \cup {NilIP} :
          ReadPacket(l, srcIP) /\ UNCHANGED dvars
    \/ \E l \in MainListenCallIds : ReadError(l) /\ UNCHANGED dvars
    \/ \E l \in MainListenCallIds : UpdatePeerLock(l) /\ UNCHANGED dvars
    \/ \E l \in MainListenCallIds : UpdatePeerWrite(l) /\ UNCHANGED dvars
    \/ \E t \in MainListenCallIds : TickerTick(t) /\ UNCHANGED dvars
    \/ \E t \in MainListenCallIds : TickerStop(t) /\ UNCHANGED dvars
    \/ \E t \in MainListenCallIds : CheckPeerRLock(t) /\ UNCHANGED dvars
    \/ \E t \in MainListenCallIds :
          CheckPeer(t) /\ GoDispatch(t) /\ UNCHANGED <<tvars, lvars, cvars>>
    \/ \E t \in MainListenCallIds : CheckPeerReturn(t) /\ UNCHANGED dvars
    \/ \E c \in MainCloseCallIds : Close(c) /\ UNCHANGED dvars
    \/ \E c \in MainCloseCallIds : CloseSend(c) /\ UNCHANGED dvars
    \/ \E c \in MainCloseCallIds : CloseConn(c) /\ UNCHANGED dvars
    \/ AdvanceTime /\ UNCHANGED dvars
    \/ \E p \in delivering :
          DispatchReturn(p) /\ UNCHANGED <<svars, tvars, lvars, cvars>>

InitNotify == SInit /\ TIdle /\ LIdle /\ NIdle /\ CIdle

SpecNotify == InitNotify /\ [][NextNotify]_vars

CNext == TConfigValid /\ UNCHANGED <<svars, tvars, lvars, nvars>>

\* Config.Valid is driven, no Server is constructed
InitConfigValid ==
    /\ \E mc \in ValidDurationStrings, pt \in ValidDurationStrings,
          ps \in ValidPeerLists :
          validConf = LoadConfig(0, 0, mc, pt, "", ps)
    /\ validErr = "none"
    /\ SInit
    /\ TIdle
    /\ LIdle
    /\ NIdle

SpecConfigValid == InitConfigValid /\ [][CNext]_vars

\* ------------------------------------------------------------------------
\* Properties of the PeerState machine (checked under SpecStates)
\* ------------------------------------------------------------------------

\* maybeDesc of TestPeerStates: the expected String of a transitional state
maybeDesc(x, i, max) ==
    maybe \o " " \o x \o " (" \o ToString(i) \o " of " \o ToString(max) \o ")"

\* the count a transitional state reports in its String form
ReportedCount(s) == s.count + 1

IsMaybeUp(s) == s.type = "maybeState" /\ s.name = maybe \o " " \o up

IsMaybeDown(s) == s.type = "maybeState" /\ s.name = maybe \o " " \o down

\* the k Heartbeat calls trace[i] .. trace[i+k-1] were all made and all
\* carried the observation b
Run(i, k, b) ==
    /\ i \in 1..Len(trace)
    /\ i + k - 1 <= Len(trace)
    /\ \A j \in i..(i + k - 1) : trace[j].observation = b

\* C1: confirmation takes exactly `threshold` consecutive corroborating
\* checks counted from the baseline state: from Down, upThreshold = t seen
\* checks give MaybeUp(1,t) .. MaybeUp(t-1,t), none notable, and the t-th
\* gives Up, notable; from Up, downThreshold = d missed checks likewise end
\* in Down, notable, at the d-th check.
C1_ConfirmAfterThresholdChecks ==
    \A i \in 1..Len(trace) :
       /\ ( /\ trace[i].prev.type = "downState"
            /\ tlim.upThreshold >= 1
            /\ Run(i, tlim.upThreshold, TRUE) )
          => LET t == tlim.upThreshold
             IN  /\ \A k \in 1..(t - 1) :
                       /\ trace[i + k - 1].newState = maybeDesc(up, k, t)
                       /\ ~trace[i + k - 1].noteworthy
                 /\ trace[i + t - 1].newState = up
                 /\ trace[i + t - 1].noteworthy
       /\ ( /\ trace[i].prev.type = "upState"
            /\ tlim.downThreshold >= 1
            /\ Run(i, tlim.downThreshold, FALSE) )
          => LET d == tlim.downThreshold
             IN  /\ \A k \in 1..(d - 1) :
                       /\ trace[i + k - 1].newState = maybeDesc(down, k, d)
                       /\ ~trace[i + k - 1].noteworthy
                 /\ trace[i + d - 1].newState = down
                 /\ trace[i + d - 1].noteworthy

C3_CountWithinThreshold ==
    tstate.type = "maybeState"
    => /\ 1 <= ReportedCount(tstate)
       /\ ReportedCount(tstate) <= tstate.threshold

\* C4: Heartbeat is notable if and only if the current state is
\* transitional and the returned state is its target baseline
\* (MaybeUp -> Up, MaybeDown -> Down).
C4_NotableIffConfirmation ==
    \A i \in 1..Len(trace) :
       trace[i].noteworthy
       <=> \/ IsMaybeUp(trace[i].prev) /\ trace[i].state.type = "upState"
           \/ IsMaybeDown(trace[i].prev) /\ trace[i].state.type = "downState"

\* a notable confirmation, a silent reset and a silent count increment all
\* occurred
C4_Witness ==
    /\ \E i \in 1..Len(trace) :
          trace[i].noteworthy /\ IsMaybeDown(trace[i].prev)
    /\ \E i \in 1..Len(trace) :
          /\ IsMaybeUp(trace[i].prev)
          /\ trace[i].state.type = "downState"
          /\ ~trace[i].noteworthy
    /\ \E i \in 1..Len(trace) :
          /\ IsMaybeUp(trace[i].prev)
          /\ IsMaybeUp(trace[i].state)
          /\ ~trace[i].noteworthy

\* C5: reset: from any MaybeUp state one Heartbeat(false) returns exactly
\* Down, from any MaybeDown state one Heartbeat(true) returns exactly Up,
\* both not notable; the count is discarded, so the next transitional state
\* entered reports count 1.
C5_Reset ==
    \A i \in 1..Len(trace) :
       /\ (IsMaybeUp(trace[i].prev) /\ ~trace[i].observation)
          => /\ trace[i].state = downState(tlim)
             /\ trace[i].newState = down
             /\ ~trace[i].noteworthy
       /\ (IsMaybeDown(trace[i].prev) /\ trace[i].observation)
          => /\ trace[i].state = upState(tlim)
             /\ trace[i].newState = up
             /\ ~trace[i].noteworthy
       /\ ( /\ i > 1
            /\ trace[i - 1].prev.type = "maybeState"
            /\ trace[i - 1].state = trace[i - 1].prev.returnState
            /\ trace[i].state.type = "maybeState" )
          => ReportedCount(trace[i].state) = 1

\* a MaybeUp state that had counted to 2 was reset to Down and the next
\* observation entered MaybeUp again; a MaybeDown state was reset to Up
C5_Witness ==
    /\ \E i \in 2..Len(trace) :
          /\ IsMaybeUp(trace[i - 1].prev)
          /\ ReportedCount(trace[i - 1].prev) = 2
          /\ ~trace[i - 1].observation
          /\ trace[i].observation
          /\ IsMaybeUp(trace[i].state)
    /\ \E i \in 1..Len(trace) :
          IsMaybeDown(trace[i].prev) /\ trace[i].observation

\* C6: baseline idempotence: Heartbeat(true) in Up and Heartbeat(false) in
\* Down return the very same state (same thresholds), not notable, however
\* often repeated.
C6_BaselineIdempotent ==
    \A i \in 1..Len(trace) :
       /\ (trace[i].prev.type = "upState" /\ trace[i].observation)
          => /\ trace[i].state = trace[i].prev
             /\ trace[i].state = upState(tlim)
             /\ ~trace[i].noteworthy
       /\ (trace[i].prev.type = "downState" /\ ~trace[i].observation)
          => /\ trace[i].state = trace[i].prev
             /\ trace[i].state = downState(tlim)
             /\ ~trace[i].noteworthy

\* Up was kept by two consecutive seen heartbeats and Down by two
\* consecutive missed ones
C6_Witness ==
    /\ \E i \in 2..Len(trace) :
          /\ trace[i - 1].prev.type = "upState" /\ Run(i - 1, 2, TRUE)
    /\ \E i \in 2..Len(trace) :
          /\ trace[i - 1].prev.type = "downState" /\ Run(i - 1, 2, FALSE)

C8_ImmediateConfirmation ==
    \A i \in 1..Len(trace) :
       /\ ( /\ tlim.upThreshold <= 1
            /\ IsMaybeUp(trace[i].prev)
            /\ trace[i].observation )
          => /\ trace[i].state = upState(tlim)
             /\ trace[i].noteworthy
       /\ ( /\ tlim.downThreshold <= 1
            /\ IsMaybeDown(trace[i].prev)
            /\ ~trace[i].observation )
          => /\ trace[i].state = downState(tlim)
             /\ trace[i].noteworthy

\* with upThreshold 0 and downThreshold 1 the peer was confirmed Up and
\* then confirmed Down
C8_Witness ==
    /\ tlim = limits(0, 1)
    /\ \E i \in 1..Len(trace) :
          IsMaybeUp(trace[i].prev) /\ trace[i].state.type = "upState"
    /\ \E i \in 1..Len(trace) :
          IsMaybeDown(trace[i].prev) /\ trace[i].state.type = "downState"

\* ------------------------------------------------------------------------
\* Properties of the Server (checked under Spec)
\* ------------------------------------------------------------------------

\* the peers whose address range contains the address a
Containing(a) ==
    {p \in 1..Len(peers) : IPNet_Contains(peers[p].Network, a)}

\* p is the first peer in declaration order whose range contains a
IsFirstContaining(p, a) ==
    /\ p \in Containing(a)
    /\ \A q \in Containing(a) : p <= q

\* C9: a peer check forwards its event (logs it and, if the peer has a
\* webhook, posts it) if and only if the heartbeat was notable, or the
\* state string changed and the verbose flag is set; with verbose off the
\* forwarded events are exactly the notable transitions.
C9_DispatchPolicy ==
    \A t \in ListenCallIds :
       tickers[t].pc = "dispatched"
       => LET r         == tickers[t].r
              p         == peers[tickers[t].i]
              forwarded == r.logged > 0
              notable   == Heartbeat(r.prev, r.seen)[2]
              changed   == String(r.prev) # String(p.state)
          IN  /\ forwarded <=> (notable \/ (changed /\ verbose))
              /\ ~verbose => (forwarded <=> notable)
              /\ r.posted > 0 <=> (forwarded /\ p.Webhook # "")
              /\ forwarded => /\ r.event.PrevState = String(r.prev)
                              /\ r.event.NewState = String(p.state)

\* with verbose off, a check that changed the state string without being
\* notable has just forwarded nothing
C9_Witness ==
    \E t \in ListenCallIds :
       /\ tickers[t].pc = "dispatched"
       /\ ~verbose
       /\ ~tickers[t].r.noteworthy
       /\ tickers[t].r.oldState # tickers[t].r.newState
       /\ tickers[t].r.logged = 0

\* C10: a received packet sets lastSeen of exactly the first peer in
\* declaration order whose range contains the source address, and of no
\* other peer; a packet no peer's range contains changes no peer, results
\* in no error and leaves the ingestion loop reading the next packet.
C10_Routing ==
    [][/\ \A l \in ListenCallIds :
          LET call == listenCalls[l]
              m    == call.matchedPeer
          IN  \* a packet is read and matched
              /\ ( /\ call.pc = "readFrom"
                   /\ listenCalls'[l] # call
                   /\ listenCalls'[l].pc # "returned" )
                 => LET a == listenCalls'[l].srcIP
                    IN  /\ peers' = peers
                        /\ listenCalls'[l].err = nil
                        /\ IF Containing(a) = {}
                           THEN /\ listenCalls'[l].pc = "readFrom"
                                /\ listenCalls'[l].matchedPeer = 0
                           ELSE /\ listenCalls'[l].pc = "lock"
                                /\ IsFirstContaining(
                                      listenCalls'[l].matchedPeer, a)
              \* the matched peer's lastSeen is written
              /\ call.pc = "locked"
                 => /\ IsFirstContaining(m, call.srcIP)
                    /\ listenCalls'[l].pc = "readFrom"
                       => /\ peers'[m].lastSeen = now
                          /\ \A p \in 1..Len(peers) :
                                /\ p # m =>
                                     peers'[p].lastSeen = peers[p].lastSeen
                                /\ peers'[p].state = peers[p].state
       \* nothing else writes a lastSeen
       /\ \A p \in 1..Len(peers) :
             ( /\ Len(peers') = Len(peers)
               /\ peers'[p].lastSeen # peers[p].lastSeen )
             => \E l \in ListenCallIds :
                   /\ listenCalls[l].pc = "locked"
                   /\ listenCalls[l].matchedPeer = p
      ]_vars

\* a packet whose source address two peers' ranges contain was received
\* and its update completed: the first peer's lastSeen is set, the second
\* peer's is not
C10_Witness ==
    \E l \in ListenCallIds :
       /\ listenCalls[l].pc = "readFrom"
       /\ listenCalls[l].matchedPeer = 0
       /\ \A a \in Addrs : 1 \in Containing(a) => Containing(a) = {1, 2}
       /\ \E a \in Addrs : 1 \in Containing(a)
       /\ peers[1].lastSeen = now
       /\ peers[2].lastSeen = ZeroTime

\* ------------------------------------------------------------------------
\* Properties of the peer lock (checked under Spec)
\* ------------------------------------------------------------------------

\* the Listen calls inside the critical section of updatePeer for peer p
Writers(p) ==
    {l \in ListenCallIds :
        listenCalls[l].pc = "locked" /\ listenCalls[l].matchedPeer = p}

\* the check loops inside the critical section of checkPeer for peer p
Readers(p) ==
    {t \in ListenCallIds :
        tickers[t].pc \in {"rlocked", "dispatched"} /\ tickers[t].i = p}

\* C11: the per-peer lock gives mutual exclusion between the write of
\* lastSeen by the ingestion loop and its read by the check loop: in no
\* reachable state is a writer inside its critical section while a reader
\* is inside its own for the same peer (nor are two writers), so a check
\* reads lastSeen as it was before or after each update.
C11_MutualExclusion ==
    \A p \in 1..Len(peers) :
       /\ ~(Writers(p) # {} /\ Readers(p) # {})
       /\ Cardinality(Writers(p)) <= 1
       /\ peers[p].lastSeenMu.writer <=> Writers(p) # {}
       /\ peers[p].lastSeenMu.readers = Cardinality(Readers(p))

\* the lock is contended: the check loop waits at RLock for the peer whose
\* lastSeen the ingestion loop is writing
C11_Witness ==
    \E l \in ListenCallIds, t \in ListenCallIds :
       /\ listenCalls[l].pc = "locked"
       /\ tickers[t].pc = "rlock"
       /\ tickers[t].i = listenCalls[l].matchedPeer

\* ------------------------------------------------------------------------
\* Properties of shutdown (checked under SpecLifecycle and Spec)
\* ------------------------------------------------------------------------

\* a Close call on a listening Server has returned nil and no Close call is
\* under way: the shutdown signal was sent and the connection closed
ShutdownComplete ==
    /\ \E c \in CloseCallIds :
          closeCalls[c].pc = "returned" /\ closeCalls[c].err = nil
    /\ \A c \in CloseCallIds : closeCalls[c].pc \in {"idle", "returned"}

\* the check loops that have been started and have not exited
RunningCheckLoops ==
    {t \in ListenCallIds : tickers[t].pc \notin {"none", "stopped"}}

\* the Listen calls that are under way
RunningListenCalls ==
    {l \in ListenCallIds : listenCalls[l].pc \notin {"idle", "returned"}}

\* C12: shutdown terminates both activities: after Close is called on a
\* listening Server the check loop observes the shutdown signal and exits,
\* and the blocked receive of the ingestion loop fails so that Listen
\* returns.  Stated on the states where Close is over: every check loop
\* still running then has a shutdown signal waiting for it in closeChan,
\* and every Listen call still under way reads from the closed connection.
C12_ShutdownTerminates ==
    ShutdownComplete
    => /\ Cardinality(RunningCheckLoops) <= closeChan
       /\ RunningListenCalls # {} => conn = "closed"
       /\ \A l \in RunningListenCalls : listenCalls[l].pc # "listenPacket"

\* C13: the result of Listen tells the two causes of a receive failure
\* apart: a receive that fails because Close was called is silent, Listen
\* does not report it as an error; a receive that fails with no shutdown in
\* progress is returned by Listen.  So no Listen call returns the error of
\* a receive on the connection Close has closed.
C13_ShutdownReceiveFailureSilent ==
    \A l \in ListenCallIds :
       listenCalls[l].pc = "returned"
       => listenCalls[l].err # errClosedConn

\* ------------------------------------------------------------------------
\* Properties of Listen and Close calls (checked under Spec and
\* SpecLifecycle)
\* ------------------------------------------------------------------------

\* the step is the call l of Listen
ListenCalled(l) ==
    listenCalls[l].pc = "idle" /\ listenCalls'[l].pc # "idle"

\* the step is the call c of Close
CloseCalled(c) ==
    closeCalls[c].pc = "idle" /\ closeCalls'[c].pc # "idle"

\* the step leaves the Server as it was: no check loop started, no socket
\* opened, no shutdown signal sent, no field changed
ServerUnchanged ==
    UNCHANGED <<server, verbose, listenAddress, conn, peers, closeChan,
                peerTimeout, tickers>>

\* C14: Listen on a Server with an empty listen address returns
\* ErrEmptyListenAddress; Listen on a Server whose connection is already
\* set returns ErrServerAlreadyListening; the empty address is checked
\* first; in both cases no check loop is started, no socket is opened and
\* the Server is unchanged.
C14_ListenPreconditions ==
    [][\A l \in ListenCallIds :
          ListenCalled(l)
          => /\ listenAddress = ""
                => /\ listenCalls'[l].pc = "returned"
                   /\ listenCalls'[l].err = ErrEmptyListenAddress
                   /\ ServerUnchanged
             /\ (listenAddress # "" /\ conn # "nil")
                => /\ listenCalls'[l].pc = "returned"
                   /\ listenCalls'[l].err = ErrServerAlreadyListening
                   /\ ServerUnchanged]_vars

\* Listen was called on a Server with an empty listen address and a
\* connection already set, and returned ErrEmptyListenAddress without
\* starting a check loop
C14_Witness ==
    /\ listenAddress = ""
    /\ conn # "nil"
    /\ \E l \in ListenCallIds :
          /\ listenCalls[l].pc = "returned"
          /\ listenCalls[l].err = ErrEmptyListenAddress
          /\ tickers[l].pc = "none"

\* C15: for any sequence of calls on one Server, every Listen call after
\* the first returns ErrServerAlreadyListening, whatever the outcome of the
\* first call and whether or not Close was called in between.
C15_LaterListenAlreadyListening ==
    \A l \in ListenCallIds :
       (l > 1 /\ listenCalls[l].pc # "idle")
       => /\ listenCalls[l].pc = "returned"
          /\ listenCalls[l].err = ErrServerAlreadyListening

\* C16: Close called before Listen has opened the connection returns
\* ErrServerNotListening, sends no shutdown signal and leaves the Server
\* unchanged.
C16_CloseBeforeListen ==
    [][\A c \in CloseCallIds :
          (CloseCalled(c) /\ conn = "nil")
          => /\ closeCalls'[c].pc = "returned"
             /\ closeCalls'[c].err = ErrServerNotListening
             /\ ServerUnchanged
             /\ UNCHANGED listenCalls]_vars

\* Close returned ErrServerNotListening on a Server whose Listen call had
\* started its check loop and not yet opened the connection; no shutdown
\* signal is in closeChan and the check loop runs on
C16_Witness ==
    \E c \in CloseCallIds, l \in ListenCallIds :
       /\ closeCalls[c].pc = "returned"
       /\ closeCalls[c].err = ErrServerNotListening
       /\ listenCalls[l].pc = "listenPacket"
       /\ tickers[l].pc \notin {"none", "stopped"}
       /\ conn = "nil"
       /\ closeChan = 0

\* a Close call on a listening Server has returned nil: the Server has
\* been closed
AlreadyClosed ==
    \E k \in CloseCallIds :
       closeCalls[k].pc = "returned" /\ closeCalls[k].err = nil

\* C17: Close called on a Server that has already been closed (Listen,
\* then Close, then Close again) fails with ErrServerNotListening.
C17_CloseAfterClose ==
    [][\A c \in CloseCallIds :
          (CloseCalled(c) /\ AlreadyClosed)
          => /\ closeCalls'[c].pc = "returned"
             /\ closeCalls'[c].err = ErrServerNotListening]_vars

\* ------------------------------------------------------------------------
\* Properties of loadPeers (checked under SpecLoadPeers)
\* ------------------------------------------------------------------------

\* the PeerConfig has no name, no network, or a network that cannot be
\* parsed as CIDR notation
InvalidPeerConfig(pc) ==
    pc.Name = "" \/ pc.Network.text = "" \/ pc.Network.text # "cidr"

\* C18: loadPeers is all-or-nothing: it fails with ErrTooFewPeers for a
\* configuration without peers; it returns an error and no peers when any
\* one peer is invalid or has a network that cannot be parsed, whatever
\* the peers before it; it returns peers only when every peer of the
\* configuration was constructed, in the order of declaration.
C18_LoadPeersAllOrNothing ==
    loadDone
    => /\ Len(conf.Peers) = 0 => loaded.err = ErrTooFewPeers
       /\ (\E i \in 1..Len(conf.Peers) : InvalidPeerConfig(conf.Peers[i]))
          => loaded.err # nil
       /\ loaded.err # nil => loaded.peers = <<>>
       /\ loaded.err = nil
          => /\ Len(loaded.peers) = Len(conf.Peers)
             /\ Len(loaded.peers) >= 1
             /\ \A i \in 1..Len(conf.Peers) :
                   /\ ~InvalidPeerConfig(conf.Peers[i])
                   /\ loaded.peers[i].Name = conf.Peers[i].Name
                   /\ loaded.peers[i] = loadPeer(conf, conf.Peers[i]).peer

\* loadPeers returned an error and no peers for a valid peer followed by
\* one whose network is not CIDR notation, under valid durations
C18_Witness ==
    /\ loadDone
    /\ Len(conf.Peers) = 2
    /\ ~InvalidPeerConfig(conf.Peers[1])
    /\ conf.Peers[2].Name # ""
    /\ conf.Peers[2].Network = InvalidNetworkString
    /\ conf.MonitorCycle.ok /\ conf.PeerTimeout.ok
    /\ loaded.err # nil
    /\ loaded.peers = <<>>

\* C19: each peer's upThreshold, downThreshold and webhook are resolved
\* independently: the per-peer value when it is nonzero (non-empty for the
\* webhook), the global value otherwise; a peer has no webhook only when
\* both the per-peer and the global webhook are empty.
C19_OverrideResolution ==
    (loadDone /\ loaded.err = nil)
    => \A i \in 1..Len(loaded.peers) :
          LET pc == conf.Peers[i]
              p  == loaded.peers[i]
          IN  /\ pc.UpThreshold # 0 => p.upThreshold = pc.UpThreshold
              /\ pc.UpThreshold = 0 => p.upThreshold = conf.UpThreshold
              /\ pc.DownThreshold # 0 => p.downThreshold = pc.DownThreshold
              /\ pc.DownThreshold = 0 => p.downThreshold = conf.DownThreshold
              /\ pc.Webhook # "" => p.Webhook = pc.Webhook
              /\ pc.Webhook = "" => p.Webhook = conf.Webhook
              /\ p.Webhook = "" <=> (pc.Webhook = "" /\ conf.Webhook = "")

\* the "Global config with overrides" case of TestLoadPeers: the first
\* peer overrides the down threshold and the webhook, the second the up
\* threshold only
C19_Witness ==
    /\ loadDone
    /\ loaded.err = nil
    /\ conf.UpThreshold = 10 /\ conf.DownThreshold = 11
    /\ conf.Webhook = exampleHookA
    /\ Len(loaded.peers) = 2
    /\ conf.Peers[1].UpThreshold = 0 /\ conf.Peers[1].DownThreshold = 99
    /\ conf.Peers[1].Webhook = exampleHookB
    /\ conf.Peers[2].UpThreshold = 128 /\ conf.Peers[2].DownThreshold = 0
    /\ conf.Peers[2].Webhook = ""
    /\ loaded.peers[1].upThreshold = 10 /\ loaded.peers[1].downThreshold = 99
    /\ loaded.peers[1].Webhook = exampleHookB
    /\ loaded.peers[2].upThreshold = 128 /\ loaded.peers[2].downThreshold = 11
    /\ loaded.peers[2].Webhook = exampleHookA

\* ------------------------------------------------------------------------
\* Properties of NewPeer (checked under SpecStates)
\* ------------------------------------------------------------------------

\* s is the Down state carrying the thresholds of lim, and reads "Down"
IsDownWith(s, lim) ==
    /\ s.type = "downState"
    /\ s.limits.upThreshold = lim.upThreshold
    /\ s.limits.downThreshold = lim.downThreshold
    /\ String(s) = "Down"

\* C20: every newly constructed peer starts in state Down carrying exactly
\* the thresholds it was constructed with, for every threshold pair (0
\* included), and its state string is "Down" until the first check: the
\* first Heartbeat is applied to that state.
C20_NewPeerStartsDown ==
    /\ trace = <<>> => IsDownWith(tstate, tlim)
    /\ Len(trace) >= 1
       => /\ IsDownWith(trace[1].prev, tlim)
          /\ trace[1].prevState = "Down"

\* a peer constructed with upThreshold 0 and downThreshold MaxThreshold
\* has had its first check
C20_Witness ==
    /\ tlim.upThreshold = 0
    /\ tlim.downThreshold = MaxThreshold
    /\ Len(trace) = 1
    /\ trace[1].prevState = "Down"

\* ------------------------------------------------------------------------
\* Properties of notification (checked under Spec)
\* ------------------------------------------------------------------------

\* the Server's registry was built by NewServer from the configuration c
BuiltFrom(c) ==
    /\ Config_Valid(c) = nil
    /\ Len(peers) = Len(c.Peers)
    /\ \A i \in 1..Len(peers) :
          /\ peers[i].Name = c.Peers[i].Name
          /\ ParseCIDR(c.Peers[i].Network).err = nil
          /\ peers[i].Network = ParseCIDR(c.Peers[i].Network).net

\* the webhook target in effect for the i-th peer of c: its own, or the
\* global one
EffectiveTarget(c, i) ==
    IF c.Peers[i].Webhook # "" THEN c.Peers[i].Webhook ELSE c.Webhook

\* the check that ticker t has just made forwards its event
Forwarded(t) ==
    \/ tickers[t].r.noteworthy
    \/ tickers[t].r.oldState # tickers[t].r.newState /\ verbose

\* C21: notification of a forwarded event: the event's title is written to
\* the log exactly once whether or not a webhook target is configured, and
\* a webhook delivery is started exactly once if the peer has an effective
\* target (its own or the global one) and never if it has none.
C21_Notification ==
    \A t \in ListenCallIds :
       (tickers[t].pc = "dispatched" /\ Forwarded(t))
       => /\ tickers[t].r.logged = 1
          /\ tickers[t].r.event.Title # ""
          /\ \A c \in ServerConfigs :
                BuiltFrom(c)
                => tickers[t].r.posted =
                      IF EffectiveTarget(c, tickers[t].i) # "" THEN 1 ELSE 0

\* an event was forwarded for a peer without a webhook of its own under a
\* global webhook: it was logged once and one delivery was started
C21_Witness ==
    \E t \in ListenCallIds, c \in ServerConfigs :
       /\ tickers[t].pc = "dispatched"
       /\ Forwarded(t)
       /\ BuiltFrom(c)
       /\ c.Peers[tickers[t].i].Webhook = ""
       /\ c.Webhook # ""
       /\ tickers[t].r.logged = 1
       /\ tickers[t].r.posted = 1

\* ------------------------------------------------------------------------
\* Properties of webhook delivery (checked under SpecNotify)
\* ------------------------------------------------------------------------

\* C22: webhook delivery is fire-and-forget: the check loop's progress
\* never depends on a delivery completing.  Whatever deliveries are in
\* flight, the check loop can take its next step (commit and dispatch,
\* return and go on to the next peer or back to the select, the next tick,
\* the shutdown signal), the ingestion loop can read the next packet and
\* Close can send its signal and close the connection.
C22_FireAndForget ==
    /\ \A t \in MainListenCallIds :
          /\ tickers[t].pc = "rlocked"
             => ENABLED (CheckPeer(t) /\ GoDispatch(t))
          /\ tickers[t].pc = "dispatched" => ENABLED CheckPeerReturn(t)
          /\ (tickers[t].pc = "rlock"
                 /\ ~peers[tickers[t].i].lastSeenMu.writer)
             => ENABLED CheckPeerRLock(t)
          /\ tickers[t].pc = "select" => ENABLED TickerTick(t)
          /\ (tickers[t].pc = "select" /\ closeChan > 0)
             => ENABLED TickerStop(t)
    /\ \A l \in MainListenCallIds :
          (listenCalls[l].pc = "readFrom" /\ conn = "open")
          => \A srcIP \in Addrs : ENABLED ReadPacket(l, srcIP)
    /\ \A c \in MainCloseCallIds :
          /\ (closeCalls[c].pc = "send" /\ closeChan = 0)
             => ENABLED CloseSend(c)
          /\ closeCalls[c].pc = "connClose" => ENABLED CloseConn(c)

\* deliveries for both peers are still in flight when the check loop has
\* exited on the shutdown signal, Close has returned nil and Listen has
\* returned
C22_Witness ==
    /\ delivering = {1, 2}
    /\ \A t \in MainListenCallIds : tickers[t].pc = "stopped"
    /\ \A c \in MainCloseCallIds :
          closeCalls[c].pc = "returned" /\ closeCalls[c].err = nil
    /\ \A l \in MainListenCallIds : listenCalls[l].pc = "returned"

\* ------------------------------------------------------------------------
\* Properties of NewServer (checked under Spec)
\* ------------------------------------------------------------------------

\* C23: NewServer validation: with an empty listen address NewServer
\* returns ErrEmptyListenAddress, taking precedence over any configuration
\* error; with a non-empty address and a configuration without peers it
\* returns ErrTooFewPeers; in every error case no Server is returned.
C23_NewServerValidation ==
    [][\A v \in BOOLEAN, addr \in ListenAddresses, c \in ServerConfigs :
          NewServer(v, addr, c)
          => /\ addr = "" => newServerErr' = ErrEmptyListenAddress
             /\ (addr # "" /\ Len(c.Peers) = 0)
                => newServerErr' = ErrTooFewPeers
             /\ newServerErr' # nil
                => /\ server' = "nil"
                   /\ UNCHANGED <<verbose, listenAddress, conn, peers,
                                  closeChan, peerTimeout>>
             /\ newServerErr' = nil
                => /\ addr # ""
                   /\ Config_Valid(c) = nil
                   /\ server' = "ok"]_vars

\* NewServer has returned ErrEmptyListenAddress and no Server
C23_Witness ==
    /\ newServerErr = ErrEmptyListenAddress
    /\ server = "nil"
    /\ peers = <<>>

\* ------------------------------------------------------------------------
\* Properties of Config.Valid (checked under SpecConfigValid)
\* ------------------------------------------------------------------------

\* the peers of c that PeerConfig.Valid rejects
InvalidPeers(c) ==
    {i \in 1..Len(c.Peers) :
        c.Peers[i].Name = "" \/ c.Peers[i].Network.text = ""}

\* the first of them in declaration order
FirstInvalidPeer(c) ==
    CHOOSE i \in InvalidPeers(c) : \A j \in InvalidPeers(c) : i <= j

\* the error of time.ParseDuration for the string str
DurationError(str) == "time: invalid duration \"" \o str.text \o "\""

\* C24: Config.Valid reports the first failing check in a fixed order: no
\* peers -> ErrTooFewPeers; else the first invalid peer in declaration
\* order (missing Name -> ErrNoPeerName before missing Network ->
\* ErrNoPeerNetwork); else an unparsable MonitorCycle; else an unparsable
\* PeerTimeout; it returns nil only when all checks pass.
C24_ConfigValidOrder ==
    validErr # "none"
    => LET c == validConf
       IN  IF Len(c.Peers) = 0
           THEN validErr = ErrTooFewPeers
           ELSE IF InvalidPeers(c) # {}
           THEN validErr = IF c.Peers[FirstInvalidPeer(c)].Name = ""
                           THEN ErrNoPeerName
                           ELSE ErrNoPeerNetwork
           ELSE IF ~c.MonitorCycle.ok
           THEN validErr = DurationError(c.MonitorCycle)
           ELSE IF ~c.PeerTimeout.ok
           THEN validErr = DurationError(c.PeerTimeout)
           ELSE validErr = nil

\* Valid was called on a Config with valid peers whose MonitorCycle and
\* PeerTimeout are both unparsable and differ, and reported the
\* MonitorCycle
C24_Witness ==
    /\ validErr # "none"
    /\ Len(validConf.Peers) = 2
    /\ InvalidPeers(validConf) = {}
    /\ validConf.MonitorCycle = InvalidDurationString
    /\ validConf.PeerTimeout = EmptyDurationString
    /\ validErr = DurationError(InvalidDurationString)

\* ------------------------------------------------------------------------
\* Properties of the lock scope of a peer check (checked under Spec)
\* ------------------------------------------------------------------------

\* the step is ticker t assigning p.state and dispatching the event
CommitStep(t) ==
    tickers[t].pc = "rlocked" /\ tickers'[t].pc = "dispatched"

\* C25: lock scope of a peer check: the check loop holds the peer's read
\* lock only while it computes `seen` from lastSeen; the heartbeat call,
\* the event construction, the log/webhook dispatch and the commit of the
\* new state all happen with no lock held, so a packet update for that
\* peer is never made to wait for them.
C25_LockScope ==
    [][\A t \in ListenCallIds :
          /\ CommitStep(t) => peers[tickers[t].i].lastSeenMu.readers = 0
          /\ \A l \in ListenCallIds :
                ( /\ listenCalls[l].pc = "lock"
                  /\ listenCalls[l].matchedPeer = tickers[t].i )
                => tickers[t].pc \notin {"rlocked", "dispatched"}]_vars

\* ------------------------------------------------------------------------
\* Properties of the accesses to a peer's state (checked under
\* SpecLifecycle and Spec)
\* ------------------------------------------------------------------------

\* the check loops that have read the state of peer p, called Heartbeat on
\* it and have not yet assigned the result to p.state
StateAccessors(p) ==
    {t \in ListenCallIds : tickers[t].pc = "rlocked" /\ tickers[t].i = p}

\* C26: a peer's state is accessed by the check loop only: in no reachable
\* state, over any sequence of Listen, Close, packet arrivals and ticks, do
\* two activities read or write the same peer's state concurrently, so the
\* unsynchronised state field has no race.
C26_StateSingleAccessor ==
    \A p \in 1..Len(peers) : Cardinality(StateAccessors(p)) <= 1

\* ------------------------------------------------------------------------
\* Frame properties of the two loops (checked under Spec)
\* ------------------------------------------------------------------------

\* the fields of a peer that are set at construction
Identity(p) ==
    <<p.Name, p.Network, p.upThreshold, p.downThreshold, p.Webhook>>

\* C27: frame of the two loops: a packet arrival changes only the matched
\* peer's lastSeen (no peer's state, no other peer's lastSeen); a peer
\* check changes only that peer's state (never any lastSeen); and no
\* operation after construction changes a peer's name, address range,
\* thresholds or webhook target, nor the membership or order of the
\* registry.
C27_Frame ==
    [][server = "ok"
       => /\ Len(peers') = Len(peers)
          /\ \A p \in 1..Len(peers) :
                /\ Identity(peers'[p]) = Identity(peers[p])
                \* a step of the ingestion loop
                /\ listenCalls' # listenCalls
                   => /\ peers'[p].state = peers[p].state
                      /\ peers'[p].lastSeen # peers[p].lastSeen
                         => \E l \in ListenCallIds :
                               /\ listenCalls[l].pc = "locked"
                               /\ listenCalls[l].matchedPeer = p
                               /\ listenCalls'[l].pc = "readFrom"
                \* a step of the check loop
                /\ tickers' # tickers
                   => /\ peers'[p].lastSeen = peers[p].lastSeen
                      /\ peers'[p].state # peers[p].state
                         => \E t \in ListenCallIds :
                               /\ tickers[t].pc = "rlocked"
                               /\ tickers[t].i = p
                               /\ tickers'[t].pc = "dispatched"
                \* any other step
                /\ (listenCalls' = listenCalls /\ tickers' = tickers)
                   => /\ peers'[p].state = peers[p].state
                      /\ peers'[p].lastSeen = peers[p].lastSeen]_vars

\* in a registry of two peers, packets have set the first peer's lastSeen
\* and checks have confirmed it Up, while the second peer has its lastSeen
\* and state as constructed
C27_Witness ==
    /\ Len(peers) = 2
    /\ peers[1].lastSeen # ZeroTime
    /\ peers[1].state.type = "upState"
    /\ peers[2].lastSeen = ZeroTime
    /\ peers[2].state = NewPeer(peers[2].upThreshold, peers[2].downThreshold)

\* ------------------------------------------------------------------------
\* Properties of the monitor cycle (checked under Spec)
\* ------------------------------------------------------------------------

\* C28: on each tick of the monitor cycle every peer of the registry is
\* checked exactly once, one at a time, in registry (declaration) order; a
\* check of one peer completes before the check of the next one begins.
\* Stated on the steps of a check loop: a tick begins the check of the
\* first peer; a check that has begun is carried through (lock, heartbeat,
\* assignment of the state and dispatch) for the same peer; when the check
\* of peer i has returned, the check of peer i+1 begins, and after the last
\* peer the loop is back at its select.
C28_CycleChecksEachPeerInOrder ==
    [][\A t \in ListenCallIds :
          LET a == tickers[t]
              b == tickers'[t]
          IN  a # b
              => \/ a.pc = "none" /\ b.pc = "select"
                 \/ a.pc = "select" /\ b.pc = "stopped"
                 \/ /\ a.pc = "select"
                    /\ b.pc = "rlock"
                    /\ b.i = 1
                 \/ /\ a.pc = "rlock"
                    /\ b.pc = "rlocked"
                    /\ b.i = a.i
                    /\ a.i \in 1..Len(peers)
                 \/ /\ a.pc = "rlocked"
                    /\ b.pc = "dispatched"
                    /\ b.i = a.i
                    /\ peers'[a.i].state = b.r.state
                 \/ /\ a.pc = "dispatched"
                    /\ a.i < Len(peers)
                    /\ b.pc = "rlock"
                    /\ b.i = a.i + 1
                 \/ /\ a.pc = "dispatched"
                    /\ a.i = Len(peers)
                    /\ b.pc = "select"]_vars

\* in a registry of two peers the check of the second peer has dispatched:
\* the tick has checked the first peer, then the second
C28_Witness ==
    \E t \in ListenCallIds :
       /\ Len(peers) = 2
       /\ tickers[t].pc = "dispatched"
       /\ tickers[t].i = 2

\* ------------------------------------------------------------------------
\* Properties of the notable events (checked under SpecStates and
\* SpecLifecycle)
\* ------------------------------------------------------------------------

\* C29: content of a notable event: for every notable transition of a peer
\* with threshold t in the confirmed direction X (Up or Down), the event's
\* newState is X and its prevState is "Maybe X (t of t)", the transitional
\* state with its count equal to the threshold (the title being "Peer
\* <name> is X", built from newState).  prevState and newState are the
\* String forms checkPeer takes before and after the Heartbeat call.
C29_NotableEventContent ==
    \A i \in 1..Len(trace) :
       trace[i].noteworthy
       => \/ /\ trace[i].newState = up
             /\ trace[i].prevState =
                   maybeDesc(up, tlim.upThreshold, tlim.upThreshold)
          \/ /\ trace[i].newState = down
             /\ trace[i].prevState =
                   maybeDesc(down, tlim.downThreshold, tlim.downThreshold)

\* the Heartbeat call recorded in e was notable
IsNotable(e) == e.noteworthy

\* the notable events of the driven PeerState, in the order they occurred
NotableEvents == SelectSeq(trace, IsNotable)

\* the check loops that have just dispatched a notable event for peer p
\* and have not yet returned from checkPeer
JustConfirmed(p) ==
    {t \in ListenCallIds :
        /\ tickers[t].pc = "dispatched"
        /\ tickers[t].i = p
        /\ tickers[t].r.noteworthy}

\* C30: for each peer, over any sequence of observations, the notable
\* events alternate strictly between Up and Down and the first one is Up;
\* two notable events with the same newState never occur without a notable
\* event of the opposite state between them.  For the driven PeerState
\* this is stated on the sequence of its notable events; for the peers of
\* a Server, on the events that check loops have dispatched and not yet
\* returned from: no check of the peer, hence no event for it, lies
\* between the dispatch of any two of them, so they must differ in
\* newState.
C30_NotableEventsAlternate ==
    /\ Len(NotableEvents) > 0 => NotableEvents[1].newState = up
    /\ \A k \in 1..(Len(NotableEvents) - 1) :
          NotableEvents[k].newState # NotableEvents[k + 1].newState
    /\ \A p \in 1..Len(peers) :
          \A t1 \in JustConfirmed(p), t2 \in JustConfirmed(p) :
             t1 # t2 => tickers[t1].r.newState # tickers[t2].r.newState
\* ------------------------------------------------------------------------
\* Properties of the PeerState machine, continued (checked under SpecStates)
\* ------------------------------------------------------------------------

\* the baseline classification of a state: its own type, or for a
\* transitional state the type of the state it returns to
Baseline(s) == IF s.type = "maybeState" THEN s.returnState.type ELSE s.type

\* the observation that contradicts a baseline classification
Contrary(b) == b = "downState"

\* observation i contradicts the baseline it was made in, and the
\* observations next to it, where there are any, agree with that baseline
Isolated(i) ==
    LET b == Baseline(trace[i].prev)
    IN  /\ trace[i].observation = Contrary(b)
        /\ i > 1 => trace[i - 1].observation # Contrary(b)
        /\ i < Len(trace) => trace[i + 1].observation # Contrary(b)

C32_AtMostOneCheckLoop == Cardinality(RunningCheckLoops) <= 1

\* the call l of Listen has returned the error of icmp.ListenPacket
ListenPacketFailed(l) ==
    /\ listenCalls[l].pc = "returned"
    /\ listenCalls[l].err \notin {nil, ErrEmptyListenAddress,
                                  ErrServerAlreadyListening,
                                  errRead, errClosedConn}

\* C33: when Listen has returned the error of a socket that could not be
\* opened, the check loop that call started is not running.
C33_FailedListenLeavesNoCheckLoop ==
    \A l \in ListenCallIds :
       ListenPacketFailed(l) => l \notin RunningCheckLoops

\* C34: once Close has returned, no further peer check is performed: the
\* check loop begins no cycle, no peer's state changes and no event is
\* logged or dispatched, even when a tick of the timer is pending together
\* with the shutdown signal.
C34_NoCheckAfterClose ==
    [][ShutdownComplete
       => /\ \A t \in ListenCallIds :
                /\ ~(tickers[t].pc = "select" /\ tickers'[t].pc = "rlock")
                /\ ( /\ tickers[t].pc # "dispatched"
                     /\ tickers'[t].pc = "dispatched" )
                   => /\ tickers'[t].r.logged = 0
                      /\ tickers'[t].r.posted = 0
          /\ Len(peers') = Len(peers)
          /\ \A p \in 1..Len(peers) : peers'[p].state = peers[p].state
      ]_vars

\* no check loop can be started any more: the connection is set, which
\* makes every later Listen call return ErrServerAlreadyListening, and no
\* Listen call is about to assign it
NoNewCheckLoop ==
    /\ conn # "nil"
    /\ \A l \in ListenCallIds : listenCalls[l].pc # "listenPacket"

\* the call c of Close waits at its send on a full closeChan that no check
\* loop, running or still to be started, will ever receive from
BlockedForever(c) ==
    /\ closeCalls[c].pc = "send"
    /\ closeChan = CloseChanCap
    /\ RunningCheckLoops = {}
    /\ NoNewCheckLoop

\* C35: every Close call returns, however many Close calls were made
\* before it and whether or not a check loop is still running to receive
\* the shutdown signal.  Stated on finite runs: no Close call is ever in a
\* state from which it cannot return.
C35_CloseReturns == \A c \in CloseCallIds : ~BlockedForever(c)

\* ------------------------------------------------------------------------
\* Properties of one peer check (checked under Spec)
\* ------------------------------------------------------------------------

\* C36: within one peer check the lastSeen the event carries is the value
\* that was compared with the peer timeout to compute seen, whatever
\* packet updates for that peer are under way: from the comparison to the
\* return of checkPeer the peer's lastSeen is the value compared.
C36_EventCarriesComparedLastSeen ==
    \A t \in ListenCallIds :
       /\ tickers[t].pc \in {"rlocked", "dispatched"}
          => peers[tickers[t].i].lastSeen = tickers[t].r.lastSeen
       /\ tickers[t].pc = "dispatched"
          => tickers[t].r.event.LastSeen = tickers[t].r.lastSeen

\* an event was dispatched for a peer seen earlier while a packet of that
\* peer, received later, waits for the lock to write a newer lastSeen
C36_Witness ==
    \E t \in ListenCallIds, l \in ListenCallIds :
       /\ tickers[t].pc = "dispatched"
       /\ tickers[t].r.logged > 0
       /\ tickers[t].r.lastSeen # ZeroTime
       /\ tickers[t].r.lastSeen < now
       /\ listenCalls[l].pc = "lock"
       /\ listenCalls[l].matchedPeer = tickers[t].i

\* ------------------------------------------------------------------------
\* Properties of shadowed peers (checked under Spec)
\* ------------------------------------------------------------------------

\* every address in the range of peer p is also in the range of a peer
\* declared before it
Shadowed(p) ==
    \A a \in Addrs :
       IPNet_Contains(peers[p].Network, a)
       => \E q \in 1..(p - 1) : IPNet_Contains(peers[q].Network, a)

\* C37: a peer whose range is covered by the ranges of the peers declared
\* before it never has its lastSeen set: under any packet traffic it is in
\* Down at every moment, every check of it goes from Down to Down and
\* neither logs nor posts an event.
C37_ShadowedPeerStaysDown ==
    \A p \in 1..Len(peers) :
       Shadowed(p)
       => /\ peers[p].lastSeen = ZeroTime
          /\ peers[p].state.type = "downState"
          /\ \A t \in ListenCallIds :
                (tickers[t].i = p /\ tickers[t].pc = "dispatched")
                => /\ ~tickers[t].r.seen
                   /\ tickers[t].r.oldState = down
                   /\ tickers[t].r.newState = down
                   /\ tickers[t].r.logged = 0
                   /\ tickers[t].r.posted = 0

\* the second of two peers with the same range has been checked, in
\* verbose mode, after packets from that range have made the first one Up
C37_Witness ==
    /\ Len(peers) = 2
    /\ Shadowed(2)
    /\ \E a \in Addrs : IPNet_Contains(peers[2].Network, a)
    /\ verbose
    /\ peers[1].state.type = "upState"
    /\ peers[1].lastSeen # ZeroTime
    /\ \E t \in ListenCallIds :
          tickers[t].i = 2 /\ tickers[t].pc = "dispatched"

\* ------------------------------------------------------------------------
\* Convergence of the classification (checked under SpecStates, Spec and
\* SpecLifecycle)
\* ------------------------------------------------------------------------

\* the state that observations b confirm
Target(b) == IF b THEN "upState" ELSE "downState"

\* the number of consecutive observations b after which the state they
\* confirm is reached from every state: one to enter the transitional
\* state and the threshold, or one when it is 0, to leave it
ChecksToConverge(b) ==
    LET th == IF b THEN tlim.upThreshold ELSE tlim.downThreshold
    IN  1 + (IF th = 0 THEN 1 ELSE th)

\* the Heartbeat calls trace[i] .. trace[j] all carried the observation b:
\* the state they confirm is reached after ChecksToConverge(b) of them at
\* the latest, is not left once reached, and at most one of the calls is
\* notable
ConvergesOn(i, j, b) ==
    /\ (j - i + 1 >= ChecksToConverge(b))
       => trace[j].state.type = Target(b)
    /\ \A n \in i..j :
          trace[n].prev.type = Target(b) => trace[n].state.type = Target(b)
    /\ Cardinality({n \in i..j : trace[n].noteworthy}) <= 1

\* C38: convergence of the classification: when every check of a peer
\* from some check on observes seen = true the peer reaches Up and stays
\* Up, with at most one further notable event, and likewise Down for
\* seen = false.  For the state machine: every run of equal observations
\* converges within the threshold's number of checks.  For the Server:
\* a check that has observed seen = true never takes a peer out of Up nor
\* reports an event for a peer in Up, and likewise for Down.
C38_Convergence ==
    [][/\ \A i \in 1..Len(trace') : \A j \in i..Len(trace') :
             \A b \in BOOLEAN :
                (\A n \in i..j : trace'[n].observation = b)
                => ConvergesOn(i, j, b)'
       /\ \A t \in ListenCallIds :
             CommitStep(t)
             => LET p == tickers[t].i
                    b == tickers[t].r.seen
                IN  peers[p].state.type = Target(b)
                    => /\ peers'[p].state.type = Target(b)
                       /\ ~tickers'[t].r.noteworthy
                       /\ tickers'[t].r.logged = 0
      ]_vars

\* ------------------------------------------------------------------------
\* Properties of the events (checked under SpecLifecycle and Spec)
\* ------------------------------------------------------------------------

\* webhook.Event.Valid returns nil
Event_Valid(e) == e.Title # "" /\ e.NewState # "" /\ e.PrevState # ""

\* C39: every event that is logged or handed to a webhook has a title, a
\* newState and a prevState that are not empty, so that Event.Valid
\* accepts it, and its prevState differs from its newState.
C39_DispatchedEventsWellFormed ==
    \A t \in ListenCallIds :
       ( /\ tickers[t].pc = "dispatched"
         /\ tickers[t].r.logged + tickers[t].r.posted > 0 )
       => /\ Event_Valid(tickers[t].r.event)
          /\ tickers[t].r.event.PrevState # tickers[t].r.event.NewState

\* ------------------------------------------------------------------------
\* Properties of the thresholds a state carries (checked under Spec,
\* SpecStates and SpecLifecycle)
\* ------------------------------------------------------------------------

\* the state s carries the thresholds lim: as its limits when it is Up or
\* Down; when it is transitional, as the threshold it counts to and in the
\* states it returns to and goes on to
CarriesLimits(s, lim) ==
    CASE s.type \in {"upState", "downState"} -> s.limits = lim
      [] IsMaybeUp(s) ->
            /\ s.returnSeen
            /\ s.threshold = lim.upThreshold
            /\ s.returnState = downState(lim)
            /\ s.nextState = upState(lim)
      [] IsMaybeDown(s) ->
            /\ ~s.returnSeen
            /\ s.threshold = lim.downThreshold
            /\ s.returnState = upState(lim)
            /\ s.nextState = downState(lim)
      [] OTHER -> FALSE

====
